---- MODULE Spec2Model ----
(***************************************************************************)
(* The application engine of src/app.rs: the App state, the job projection *)
(* (update_display_jobs), the message/key handler (handle), the mouse      *)
(* handler (handle_mouse) and the part of the event loop (run) that        *)
(* dispatches one event per iteration.                                     *)
(*                                                                         *)
(* Option<T> is modelled as a sequence: None is <<>>, Some(x) is <<x>>.    *)
(* Vec indices are 0-based in the code; a Vec is a TLA+ sequence, so       *)
(* v.get(i) reads element i + 1.                                           *)
(***************************************************************************)
EXTENDS Integers, Sequences, FiniteSets, TLC

VARIABLES
    status,                  \* "running", "quit" (run returned Ok) or "aborted" (panic)
    dialog,                  \* App.dialog: Option<Dialog::ConfirmCancelJob(id)>
    view_mode,               \* App.view_mode
    jobs,                    \* App.jobs
    display_jobs,            \* App.display_jobs
    original_squeue_args,    \* App.original_squeue_args
    squeue_args,             \* arguments last handed to job_watcher
    selected,                \* App.job_list_state.selected(): Option<usize>
    scrollbar,               \* App.job_list_scrollbar_state
    job_list_scrollbar_area, \* Rect stored by ui
    job_list_area,           \* Rect stored by ui
    job_output_area,         \* Rect stored by ui
    job_output,              \* App.job_output: Result<String, FileWatcherError>
    job_output_anchor,       \* App.job_output_anchor
    job_output_offset,       \* App.job_output_offset: u16
    job_output_wrap,         \* App.job_output_wrap
    watched_path,            \* path last handed to job_output_watcher.set_file_path
    output_file_view,        \* App.output_file_view
    is_dragging_scrollbar,   \* App.is_dragging_scrollbar
    scancel,                 \* arguments of the scancel commands the last event spawned
    last_event,              \* the event serviced by the last loop iteration
    receiver,                \* App.receiver: the watcher messages in flight
    job_output_watcher,      \* the file watcher thread: the path it polls
    run,                     \* the locals of run and its position in the loop
    call                     \* a call of a free function: its arguments and result

vars == <<status, dialog, view_mode, jobs, display_jobs, original_squeue_args,
          squeue_args, selected, scrollbar, job_list_scrollbar_area, job_list_area,
          job_output_area, job_output, job_output_anchor, job_output_offset,
          job_output_wrap, watched_path, output_file_view, is_dragging_scrollbar,
          scancel, last_event, receiver, job_output_watcher, run, call>>

(* The last four are followed only by the specifications that are about    *)
(* them; elsewhere they keep the value None.                               *)
env == <<receiver, job_output_watcher, run, call>>

----------------------------------------------------------------------------
(* Option<T> *)

None == <<>>

Some(x) == <<x>>

unwrap_or(o, d) == IF o = None THEN d ELSE o[1]

(* Vec::get with a 0-based index *)
get(v, i) == IF i >= 0 /\ i < Len(v) THEN Some(v[i + 1]) ELSE None

----------------------------------------------------------------------------
(* Bounds of the model *)

MaxJobs == 3

MaxOffset == 1

(* the scrollbar alone: lists of up to MaxRows rows, terminals of up to    *)
(* MaxTermHeight lines                                                     *)
MaxRows == 12

MaxTermHeight == 24

(* log scrolling alone: offsets within MaxScroll of 0 and of u16::MAX *)
MaxScroll == 52

(* the file watcher: up to MaxInFlight of its messages wait in the channel *)
MaxInFlight == 1

(* chunked_string alone: strings of up to MaxLen characters, chunk sizes of *)
(* up to MaxChunk                                                          *)
MaxLen == 4

MaxChunk == 5

(* fit_text alone: logs of up to MaxLogical terminated lines, viewports of  *)
(* up to MaxLines lines and MaxCols columns                                *)
MaxLogical == 2

MaxLines == 3

MaxCols == 3

(* u16::MAX, the range of job_output_offset *)
U16Max == 65535

----------------------------------------------------------------------------
(* enum ViewMode *)

AllJobs == <<"AllJobs">>

ArrayJobDetails(array_id) == <<"ArrayJobDetails", array_id>>

(* struct Job. name stands for the attributes that the projection copies  *)
(* unchanged, all in the same way (name, state, state_compact, reason,     *)
(* user, time, tres, partition, nodelist, command).                        *)
Job(job_id, array_id, array_step, name, stdout, stderr) ==
    [job_id |-> job_id, array_id |-> array_id, array_step |-> array_step,
     name |-> name, stdout |-> stdout, stderr |-> stderr]

(* The job records the queue watcher delivers in this model *)
JobPool ==
    { Job("1", "100", Some("1"), "sim", Some("/o/100_1"), Some("/e/100_1")),
      Job("2", "100", Some("2"), "sim2", Some("/o/100_2"), None),
      Job("3", "200", None, "solo", Some("/o/3"), Some("/e/3")),
      Job("4", "200", Some("1"), "fit", None, Some("/e/200_1")) }

PoolJob(id) == CHOOSE j \in JobPool : j.job_id = id

(* Job::id *)
JobId(job) ==
    IF job.array_step # None
    THEN job.array_id \o "_" \o job.array_step[1]
    ELSE job.job_id

(* DisplayJob::id *)
DisplayJobId(d) ==
    IF d.is_array
    THEN d.array_id \o "_[1-" \o ToString(unwrap_or(d.task_count, 0)) \o "]"
    ELSE d.job_id

----------------------------------------------------------------------------
(* update_display_jobs: the projection of the job list under a view mode.  *)
(* The collapsed rows are pushed in the iteration order of a HashMap,      *)
(* which is unspecified: every order of the array ids is possible.         *)

(* a row of an individual job (both arms of the match build it this way) *)
IndividualRow(job) ==
    [job_id |-> job.job_id, array_id |-> job.array_id, name |-> job.name,
     is_array |-> FALSE, task_count |-> None,
     stdout |-> job.stdout, stderr |-> job.stderr]

(* mutant of ArrayGroup: jobs without a step are grouped as well *)
ArrayGroup_AnyStep(js, array_id) == SelectSeq(js, LAMBDA j : j.array_id = array_id)

(* array_jobs[array_id]: the jobs with a step pushed under that key, in order *)
ArrayGroup(js, array_id) ==
    SelectSeq(js, LAMBDA j : j.array_step # None /\ j.array_id = array_id)

(* the keys of array_jobs *)
ArrayIds(js) ==
    { js[i].array_id : i \in { k \in 1..Len(js) : js[k].array_step # None } }

(* individual_jobs *)
IndividualJobs(js) == SelectSeq(js, LAMBDA j : j.array_step = None)

(* the row pushed for one entry (array_id, jobs) of array_jobs *)
CollapsedRow(js, array_id) ==
    LET group == ArrayGroup(js, array_id)
        first_job == Head(group)
    IN  [job_id |-> array_id, array_id |-> array_id, name |-> first_job.name,
         is_array |-> TRUE, task_count |-> Some(Len(group)),
         stdout |-> first_job.stdout, stderr |-> first_job.stderr]

(* the orders in which a HashMap with these keys may be iterated *)
IterationOrders(keys) ==
    { f \in [1..Cardinality(keys) -> keys] :
        \A a, b \in 1..Cardinality(keys) : a # b => f[a] # f[b] }

(* the rows pushed for a sequence of jobs, one each, in order *)
IndividualRows(js) == [i \in 1..Len(js) |-> IndividualRow(js[i])]

ProjectAllJobs(js) ==
    { IndividualRows(IndividualJobs(js))
        \o [i \in 1..Len(order) |-> CollapsedRow(js, order[i])] :
      order \in IterationOrders(ArrayIds(js)) }

(* mutant of ProjectArrayJobDetails: the filter does not ask for a step *)
ProjectArrayJobDetails_AnyStep(js, array_id) ==
    IndividualRows(SelectSeq(js, LAMBDA j : j.array_id = array_id))

ProjectArrayJobDetails(js, array_id) ==
    IndividualRows(
        SelectSeq(js, LAMBDA j : j.array_id = array_id /\ j.array_step # None))

(* the values update_display_jobs may assign to display_jobs *)
Project(js, vm) ==
    IF vm = AllJobs
    THEN ProjectAllJobs(js)
    ELSE { ProjectArrayJobDetails(js, vm[2]) }

----------------------------------------------------------------------------
(* The App as one value: handlers are written as in the code, as steps     *)
(* from an App value to the App values the step may produce.               *)

Self ==
    [status |-> status, dialog |-> dialog, view_mode |-> view_mode, jobs |-> jobs,
     display_jobs |-> display_jobs, original_squeue_args |-> original_squeue_args,
     squeue_args |-> squeue_args, selected |-> selected, scrollbar |-> scrollbar,
     job_list_scrollbar_area |-> job_list_scrollbar_area,
     job_list_area |-> job_list_area, job_output_area |-> job_output_area,
     job_output |-> job_output, job_output_anchor |-> job_output_anchor,
     job_output_offset |-> job_output_offset, job_output_wrap |-> job_output_wrap,
     watched_path |-> watched_path, output_file_view |-> output_file_view,
     is_dragging_scrollbar |-> is_dragging_scrollbar, scancel |-> scancel]

(* the App value t becomes the next state *)
CommitApp(t) ==
    /\ status' = t.status
    /\ dialog' = t.dialog
    /\ view_mode' = t.view_mode
    /\ jobs' = t.jobs
    /\ display_jobs' = t.display_jobs
    /\ original_squeue_args' = t.original_squeue_args
    /\ squeue_args' = t.squeue_args
    /\ selected' = t.selected
    /\ scrollbar' = t.scrollbar
    /\ job_list_scrollbar_area' = t.job_list_scrollbar_area
    /\ job_list_area' = t.job_list_area
    /\ job_output_area' = t.job_output_area
    /\ job_output' = t.job_output
    /\ job_output_anchor' = t.job_output_anchor
    /\ job_output_offset' = t.job_output_offset
    /\ job_output_wrap' = t.job_output_wrap
    /\ watched_path' = t.watched_path
    /\ output_file_view' = t.output_file_view
    /\ is_dragging_scrollbar' = t.is_dragging_scrollbar
    /\ scancel' = t.scancel

Commit(t) == CommitApp(t) /\ UNCHANGED env

(* the watcher threads, the loop position and the free functions are not   *)
(* followed                                                                *)
NoEnv == receiver = None /\ job_output_watcher = None /\ run = None /\ call = None

(* Rect *)
Rect(x, y, width, height) == [x |-> x, y |-> y, width |-> width, height |-> height]

(* The areas ui stores for mouse hit-testing. The splits are computed by   *)
(* the layout library from the terminal size; term gives its outcome: the  *)
(* one-column scrollbar left of the job list, and the log pane under the   *)
(* 7-row details pane, all above the one-row help line.                    *)
ui_areas(term) ==
    [job_list_scrollbar_area |-> Rect(0, 0, 1, term.height - 1),
     job_list_area |-> Rect(1, 0, term.list_width, term.height - 1),
     job_output_area |-> Rect(1 + term.list_width, 7,
                              term.width - 1 - term.list_width, term.height - 8)]

(* mutant of saturating_add: the sum wraps around *)
saturating_add_Wraps(a, d) == (a + d) % (U16Max + 1)

(* u16::saturating_add, u16::saturating_sub *)
saturating_add(a, d) == IF a + d > U16Max THEN U16Max ELSE a + d

saturating_sub(a, d) == IF a - d < 0 THEN 0 ELSE a - d

(* update_display_jobs *)
update_display_jobs(s) ==
    { [s EXCEPT !.display_jobs = d] : d \in Project(s.jobs, s.view_mode) }

(* update_job_list_scrollbar *)
update_job_list_scrollbar(s) ==
    [s EXCEPT !.scrollbar = [content_length |-> Len(s.display_jobs),
                             position |-> unwrap_or(s.selected, 0)]]

(* job_list_state.selected().and_then(|i| display_jobs.get(i)) *)
SelectedRow(s) ==
    IF s.selected = None THEN None ELSE get(s.display_jobs, s.selected[1])

(* the argument of set_file_path at the end of handle *)
TargetPath(s) ==
    IF SelectedRow(s) = None
    THEN None
    ELSE IF s.output_file_view = "Stdout"
         THEN SelectedRow(s)[1].stdout
         ELSE SelectedRow(s)[1].stderr

(* mutant of enter_array_job: any selected row is drilled into *)
enter_array_job_AnyRow(s) ==
    IF SelectedRow(s) # None
    THEN LET array_id == SelectedRow(s)[1].array_id
             s1 == [s EXCEPT !.view_mode = ArrayJobDetails(array_id),
                             !.squeue_args = <<"--job", array_id>>]
         IN  { update_job_list_scrollbar([s2 EXCEPT !.selected = Some(0)]) :
               s2 \in update_display_jobs(s1) }
    ELSE {s}

(* mutant of enter_array_job: the selection is not reset *)
enter_array_job_KeepsSelection(s) ==
    IF SelectedRow(s) # None /\ SelectedRow(s)[1].is_array
    THEN LET array_id == SelectedRow(s)[1].array_id
             s1 == [s EXCEPT !.view_mode = ArrayJobDetails(array_id),
                             !.squeue_args = <<"--job", array_id>>]
         IN  { update_job_list_scrollbar(s2) : s2 \in update_display_jobs(s1) }
    ELSE {s}

(* mutant of enter_array_job: the filter is added to the arguments in use *)
enter_array_job_AppendsArgs(s) ==
    IF SelectedRow(s) # None /\ SelectedRow(s)[1].is_array
    THEN LET array_id == SelectedRow(s)[1].array_id
             s1 == [s EXCEPT !.view_mode = ArrayJobDetails(array_id),
                             !.squeue_args = @ \o <<"--job", array_id>>]
         IN  { update_job_list_scrollbar([s2 EXCEPT !.selected = Some(0)]) :
               s2 \in update_display_jobs(s1) }
    ELSE {s}

(* enter_array_job *)
enter_array_job(s) ==
    IF SelectedRow(s) # None /\ SelectedRow(s)[1].is_array
    THEN LET array_id == SelectedRow(s)[1].array_id
             s1 == [s EXCEPT !.view_mode = ArrayJobDetails(array_id),
                             !.squeue_args = <<"--job", array_id>>]
         IN  { update_job_list_scrollbar([s2 EXCEPT !.selected = Some(0)]) :
               s2 \in update_display_jobs(s1) }
    ELSE {s}

(* mutant of exit_array_job: the query arguments are not restored *)
exit_array_job_KeepsArgs(s) ==
    LET s1 == [s EXCEPT !.view_mode = AllJobs]
    IN  { update_job_list_scrollbar([s2 EXCEPT !.selected = Some(0)]) :
          s2 \in update_display_jobs(s1) }

(* exit_array_job *)
exit_array_job(s) ==
    LET s1 == [s EXCEPT !.view_mode = AllJobs,
                        !.squeue_args = s.original_squeue_args]
    IN  { update_job_list_scrollbar([s2 EXCEPT !.selected = Some(0)]) :
          s2 \in update_display_jobs(s1) }

(* select_next_job *)
select_next_job(s) ==
    IF s.display_jobs = <<>>
    THEN s
    ELSE LET i == IF s.selected # None
                  THEN IF s.selected[1] >= Len(s.display_jobs) - 1
                       THEN s.selected[1]
                       ELSE s.selected[1] + 1
                  ELSE 0
         IN  update_job_list_scrollbar([s EXCEPT !.selected = Some(i)])

(* select_previous_job *)
select_previous_job(s) ==
    IF s.display_jobs = <<>>
    THEN s
    ELSE LET i == IF s.selected # None
                  THEN IF s.selected[1] = 0 THEN 0 ELSE s.selected[1] - 1
                  ELSE 0
         IN  update_job_list_scrollbar([s EXCEPT !.selected = Some(i)])

(* f32: a finite value m / 2^e with a 24-bit significand m (2^23 <= m <    *)
(* 2^24, or m = 0), or NaN. The values met here are below 2^24, so e >= 0. *)
F32(m, e) == [nan |-> FALSE, m |-> m, e |-> e]

NaN == [nan |-> TRUE, m |-> 0, e |-> 0]

(* p / q rounded to the nearest integer, ties to even: the rounding of     *)
(* every f32 operation                                                     *)
RoundTiesEven(p, q) ==
    LET f == p \div q
        r == p % q
    IN  IF 2 * r < q THEN f
        ELSE IF 2 * r > q THEN f + 1
        ELSE IF f % 2 = 0 THEN f ELSE f + 1

(* the f32 nearest to num / (den * 2^e), for num > 0 *)
RECURSIVE f32_nearest(_, _, _)
f32_nearest(num, den, e) ==
    IF num < 2^23 * den
    THEN f32_nearest(2 * num, den, e + 1)
    ELSE IF num >= 2^24 * den
         THEN f32_nearest(num, 2 * den, e - 1)
         ELSE LET m == RoundTiesEven(num, den)
              IN  IF m = 2^24 THEN F32(2^23, e - 1) ELSE F32(m, e)

(* a as f32 / b as f32, for integers 0 <= a <= b < 2^24 (exact as f32);    *)
(* 0.0 / 0.0 is NaN                                                        *)
f32_div(a, b) ==
    IF b = 0 THEN NaN
    ELSE IF a = 0 THEN F32(0, 0)
    ELSE f32_nearest(a, b, 0)

(* x * n as f32, for an integer 0 <= n < 2^24 *)
f32_mul(x, n) ==
    IF x.nan THEN NaN
    ELSE IF x.m * n = 0 THEN F32(0, 0)
    ELSE f32_nearest(x.m * n, 1, x.e)

(* x.round() as usize: halves round away from zero, NaN is cast to 0 *)
f32_round_as_usize(x) ==
    IF x.nan THEN 0
    ELSE IF x.e = 0 THEN x.m
    ELSE (x.m \div 2^x.e)
            + (IF x.m % 2^x.e >= 2^(x.e - 1) THEN 1 ELSE 0)

(* handle_scrollbar_position_change *)
handle_scrollbar_position_change(s, row) ==
    LET area == s.job_list_scrollbar_area
        len == Len(s.display_jobs)
        relative_y ==
            IF row >= area.y /\ row < area.y + area.height
            THEN f32_div(row - area.y, saturating_sub(area.height, 1))
            ELSE IF row < area.y THEN F32(0, 0) ELSE F32(2^23, 23)
        target_index == f32_round_as_usize(f32_mul(relative_y, len - 1))
        clamped == IF target_index < len - 1 THEN target_index ELSE len - 1
    IN  IF s.display_jobs = <<>>
        THEN s
        ELSE update_job_list_scrollbar([s EXCEPT !.selected = Some(clamped)])

(* is_mouse_in_scrollbar, is_mouse_in_job_list, is_mouse_in_job_output *)
in_area(area, column, row) ==
    /\ column >= area.x /\ column < area.x + area.width
    /\ row >= area.y /\ row < area.y + area.height

is_mouse_in_scrollbar(s, column, row) == in_area(s.job_list_scrollbar_area, column, row)

is_mouse_in_job_list(s, column, row) == in_area(s.job_list_area, column, row)

is_mouse_in_job_output(s, column, row) == in_area(s.job_output_area, column, row)

(* scroll_job_output_up *)
scroll_job_output_up(s) ==
    IF s.job_output_anchor = "Top"
    THEN [s EXCEPT !.job_output_offset = saturating_sub(s.job_output_offset, 3)]
    ELSE [s EXCEPT !.job_output_offset = saturating_add(s.job_output_offset, 3)]

(* scroll_job_output_down *)
scroll_job_output_down(s) ==
    IF s.job_output_anchor = "Top"
    THEN [s EXCEPT !.job_output_offset = saturating_add(s.job_output_offset, 3)]
    ELSE [s EXCEPT !.job_output_offset = saturating_sub(s.job_output_offset, 3)]

(* mutant of handle_mouse: a drag-move is followed whether or not a drag *)
(* is on                                                                *)
handle_mouse_DragAlways(s, mouse) ==
    CASE mouse.kind = "ScrollUp" ->
            IF is_mouse_in_job_list(s, mouse.column, mouse.row)
            THEN select_previous_job(s)
            ELSE IF is_mouse_in_job_output(s, mouse.column, mouse.row)
                 THEN scroll_job_output_up(s)
                 ELSE s
      [] mouse.kind = "ScrollDown" ->
            IF is_mouse_in_job_list(s, mouse.column, mouse.row)
            THEN select_next_job(s)
            ELSE IF is_mouse_in_job_output(s, mouse.column, mouse.row)
                 THEN scroll_job_output_down(s)
                 ELSE s
      [] mouse.kind = "DownLeft" ->
            IF is_mouse_in_scrollbar(s, mouse.column, mouse.row)
            THEN handle_scrollbar_position_change(
                     [s EXCEPT !.is_dragging_scrollbar = TRUE], mouse.row)
            ELSE s
      [] mouse.kind = "UpLeft" -> [s EXCEPT !.is_dragging_scrollbar = FALSE]
      [] mouse.kind = "DragLeft" ->
            handle_scrollbar_position_change(s, mouse.row)
      [] OTHER -> s

(* handle_mouse *)
handle_mouse(s, mouse) ==
    CASE mouse.kind = "ScrollUp" ->
            IF is_mouse_in_job_list(s, mouse.column, mouse.row)
            THEN select_previous_job(s)
            ELSE IF is_mouse_in_job_output(s, mouse.column, mouse.row)
                 THEN scroll_job_output_up(s)
                 ELSE s
      [] mouse.kind = "ScrollDown" ->
            IF is_mouse_in_job_list(s, mouse.column, mouse.row)
            THEN select_next_job(s)
            ELSE IF is_mouse_in_job_output(s, mouse.column, mouse.row)
                 THEN scroll_job_output_down(s)
                 ELSE s
      [] mouse.kind = "DownLeft" ->
            IF is_mouse_in_scrollbar(s, mouse.column, mouse.row)
            THEN handle_scrollbar_position_change(
                     [s EXCEPT !.is_dragging_scrollbar = TRUE], mouse.row)
            ELSE s
      [] mouse.kind = "UpLeft" -> [s EXCEPT !.is_dragging_scrollbar = FALSE]
      [] mouse.kind = "DragLeft" ->
            IF s.is_dragging_scrollbar
            THEN handle_scrollbar_position_change(s, mouse.row)
            ELSE s
      [] OTHER -> s

----------------------------------------------------------------------------
(* handle *)

(* Result<String, FileWatcherError> *)
Ok(content) == <<"Ok", content>>

Err(e) == <<"Err", e>>

(* mutant of handle_jobs: the display list is not recomputed *)
handle_jobs_Stale(s, js) == { update_job_list_scrollbar([s EXCEPT !.jobs = js]) }

(* the arm AppMessage::Jobs *)
handle_jobs(s, js) ==
    { update_job_list_scrollbar(t) : t \in update_display_jobs([s EXCEPT !.jobs = js]) }

(* mutant of handle_job_output: a displayed error is kept *)
handle_job_output_KeepsError(s, content) ==
    IF s.job_output[1] = "Err" THEN s ELSE [s EXCEPT !.job_output = content]

(* mutant of handle_job_output: only successful reads are displayed *)
handle_job_output_DropsError(s, content) ==
    IF content[1] = "Err" THEN s ELSE [s EXCEPT !.job_output = content]

(* the arm AppMessage::JobOutput *)
handle_job_output(s, content) == [s EXCEPT !.job_output = content]

(* the step of PageDown / PageUp *)
page_delta(key) == IF key.mod THEN 50 ELSE 1

(* mutant of jump_to: the offset is kept *)
jump_to_KeepsOffset(s, anchor) == [s EXCEPT !.job_output_anchor = anchor]

(* the arms KeyCode::Home and KeyCode::End *)
jump_to(s, anchor) == [s EXCEPT !.job_output_offset = 0, !.job_output_anchor = anchor]

(* mutant of confirm_cancel: a failed launch is ignored *)
confirm_cancel_IgnoresFailure(s, id) ==
    { [s EXCEPT !.scancel = Append(s.scancel, id), !.dialog = None],
      [s EXCEPT !.dialog = None] }

(* mutant of confirm_cancel: the dialog stays open after the launch *)
confirm_cancel_KeepsDialog(s, id) ==
    { [s EXCEPT !.scancel = Append(s.scancel, id)],
      [s EXCEPT !.status = "aborted"] }

(* mutant of confirm_cancel: the id is read off the row selected now *)
confirm_cancel_SelectedNow(s, id) ==
    LET now == IF SelectedRow(s) # None THEN DisplayJobId(SelectedRow(s)[1]) ELSE id
    IN  { [s EXCEPT !.scancel = Append(s.scancel, now), !.dialog = None],
          [s EXCEPT !.status = "aborted"] }

(* Command::new("scancel").arg(id).spawn().expect(..): the command is      *)
(* launched, or the launch fails and expect panics before dialog is reset  *)
confirm_cancel(s, id) ==
    { [s EXCEPT !.scancel = Append(s.scancel, id), !.dialog = None],
      [s EXCEPT !.status = "aborted"] }

(* the arm AppMessage::Key while a dialog is open *)
handle_key_dialog(s, key) ==
    CASE key.code \in {"Enter", "y"} -> confirm_cancel(s, s.dialog[1])
      [] key.code = "Esc" -> { [s EXCEPT !.dialog = None] }
      [] OTHER -> {s}

(* the arm KeyCode::Char('c') *)
open_cancel_dialog(s) ==
    IF SelectedRow(s) # None
    THEN [s EXCEPT !.dialog = Some(DisplayJobId(SelectedRow(s)[1]))]
    ELSE s

(* the arm AppMessage::Key while no dialog is open; focus is always Jobs,  *)
(* so focus_previous_panel and focus_next_panel change nothing             *)
handle_key_main(s, key) ==
    CASE key.code \in {"h", "Left"} -> {s}
      [] key.code \in {"l", "Right"} -> {s}
      [] key.code \in {"k", "Up"} -> { select_previous_job(s) }
      [] key.code \in {"j", "Down"} -> { select_next_job(s) }
      [] key.code = "PageDown" ->
            IF s.job_output_anchor = "Top"
            THEN { [s EXCEPT !.job_output_offset =
                        saturating_add(s.job_output_offset, page_delta(key))] }
            ELSE { [s EXCEPT !.job_output_offset =
                        saturating_sub(s.job_output_offset, page_delta(key))] }
      [] key.code = "PageUp" ->
            IF s.job_output_anchor = "Top"
            THEN { [s EXCEPT !.job_output_offset =
                        saturating_sub(s.job_output_offset, page_delta(key))] }
            ELSE { [s EXCEPT !.job_output_offset =
                        saturating_add(s.job_output_offset, page_delta(key))] }
      [] key.code = "Home" -> { jump_to(s, "Top") }
      [] key.code = "End" -> { jump_to(s, "Bottom") }
      [] key.code = "c" -> { open_cancel_dialog(s) }
      [] key.code = "o" ->
            { [s EXCEPT !.output_file_view =
                   IF s.output_file_view = "Stdout" THEN "Stderr" ELSE "Stdout"] }
      [] key.code = "w" -> { [s EXCEPT !.job_output_wrap = ~s.job_output_wrap] }
      [] key.code = "Enter" -> enter_array_job(s)
      [] key.code = "Esc" ->
            IF s.view_mode # AllJobs THEN exit_array_job(s) ELSE {s}
      [] OTHER -> {s}

(* mutant of handle_key: the wrap key is served although a dialog is open *)
handle_key_WrapLeaks(s, key) ==
    IF s.dialog # None /\ key.code # "w"
    THEN handle_key_dialog(s, key)
    ELSE handle_key_main(s, key)

(* the arm AppMessage::Key *)
handle_key(s, key) ==
    IF s.dialog # None THEN handle_key_dialog(s, key) ELSE handle_key_main(s, key)

(* the update at the end of handle: job_output_watcher.set_file_path(..) *)
set_file_path(s) == [s EXCEPT !.watched_path = TargetPath(s)]

(* the match of handle on the message *)
handle_match(s, msg) ==
    CASE msg.type = "Jobs" -> handle_jobs(s, msg.jobs)
      [] msg.type = "JobOutput" -> { handle_job_output(s, msg.content) }
      [] msg.type = "Key" -> handle_key(s, msg)

(* handle: the match, then the update of the file watcher; a panic in the  *)
(* match ends the process before the update                                *)
handle(s, msg) ==
    { IF t.status = "aborted" THEN t ELSE set_file_path(t) : t \in handle_match(s, msg) }

----------------------------------------------------------------------------
(* The events of the model *)

(* KeyEvent: code, and whether SHIFT, CONTROL or ALT is held *)
Key(code, mod) == [type |-> "Key", code |-> code, mod |-> mod]

(* MouseEvent *)
Mouse(kind, column, row) == [kind |-> kind, column |-> column, row |-> row]

(* AppMessage::Jobs, AppMessage::JobOutput *)
JobsMsg(js) == [type |-> "Jobs", jobs |-> js]

JobOutputMsg(content) == [type |-> "JobOutput", content |-> content]

(* what last_event records of an event: its source, the key code or the   *)
(* kind of mouse event, and for a mouse event the pane under the pointer;  *)
(* where the step of a key or the row of the pointer is examined, also     *)
(* whether a modifier is held (KeyEvent) and the row (PointerEvent)        *)
Event(type, code) ==
    [type |-> type, code |-> code, mod |-> FALSE, over |-> "", row |-> 0]

KeyEvent(key) == [Event("Key", key.code) EXCEPT !.mod = key.mod]

(* the pane a mouse event is over, as handle_mouse tests it *)
pane(s, mouse) ==
    IF is_mouse_in_scrollbar(s, mouse.column, mouse.row) THEN "scrollbar"
    ELSE IF is_mouse_in_job_list(s, mouse.column, mouse.row) THEN "job_list"
    ELSE IF is_mouse_in_job_output(s, mouse.column, mouse.row) THEN "job_output"
    ELSE "elsewhere"

MouseEvent(s, mouse) == [Event("Mouse", mouse.kind) EXCEPT !.over = pane(s, mouse)]

PointerEvent(s, mouse) == [MouseEvent(s, mouse) EXCEPT !.row = mouse.row]

NoEvent == Event("None", "")

KeyCodes ==
    {"h", "Left", "l", "Right", "k", "Up", "j", "Down", "PageDown", "PageUp", "Home",
     "End", "c", "o", "w", "Enter", "Esc", "y", "q", "x"}

Keys ==
    { Key(code, FALSE) : code \in KeyCodes }
        \cup { Key(code, TRUE) : code \in {"PageDown", "PageUp"} }

(* the terminal of the model: 100 x 12, the job list 49 columns wide *)
Terminal == [width |-> 100, height |-> 12, list_width |-> 49]

(* wheel steps over the job list, the log pane and the help line; presses  *)
(* on the scrollbar and beside it; drags along and below the scrollbar     *)
MouseEvents ==
    { Mouse(kind, p[1], p[2]) :
        kind \in {"ScrollUp", "ScrollDown"}, p \in {<<1, 3>>, <<50, 8>>, <<50, 11>>} }
        \cup { Mouse("DownLeft", p[1], p[2]) : p \in {<<0, 0>>, <<0, 10>>, <<1, 3>>} }
        \cup { Mouse("DragLeft", 0, row) : row \in {5, 11} }
        \cup { Mouse("UpLeft", 0, 5), Mouse("Moved", 1, 3) }

(* the job lists the queue watcher delivers *)
JobSnapshots ==
    { <<>>,
      <<PoolJob("1"), PoolJob("2"), PoolJob("3")>>,
      <<PoolJob("4"), PoolJob("3"), PoolJob("1")>> }

(* the results the file watcher delivers *)
Outputs == { Err("NotFound") }

(* the query arguments given at startup *)
StartupArgs == { <<"--me">> }

----------------------------------------------------------------------------
(* App::new, then the first draw of run *)

Init ==
    /\ status = "running"
    /\ dialog = None
    /\ view_mode = AllJobs
    /\ jobs = <<>>
    /\ display_jobs = <<>>
    /\ original_squeue_args \in StartupArgs
    /\ squeue_args = original_squeue_args
    /\ selected = Some(0)
    /\ scrollbar = [content_length |-> 0, position |-> 0]
    /\ job_list_scrollbar_area = ui_areas(Terminal).job_list_scrollbar_area
    /\ job_list_area = ui_areas(Terminal).job_list_area
    /\ job_output_area = ui_areas(Terminal).job_output_area
    /\ job_output = Ok("")
    /\ job_output_anchor = "Bottom"
    /\ job_output_offset = 0
    /\ job_output_wrap = FALSE
    /\ watched_path = None
    /\ output_file_view = "Stdout"
    /\ is_dragging_scrollbar = FALSE
    /\ scancel = <<>>
    /\ last_event = NoEvent
    /\ NoEnv

(* the App at the start of a loop iteration: no command spawned yet *)
Start == [Self EXCEPT !.scancel = <<>>]

(* the model follows the output offset up to MaxOffset *)
InBounds(t) == t.job_output_offset <= MaxOffset

(* run: recv(self.receiver) -> self.handle(event) *)
ReceiveJobs ==
    /\ status = "running"
    /\ \E js \in JobSnapshots :
        \E t \in handle(Start, JobsMsg(js)) :
            /\ InBounds(t)
            /\ Commit(t)
            /\ last_event' = Event("Jobs", "")

ReceiveJobOutput ==
    /\ status = "running"
    /\ \E content \in Outputs :
        \E t \in handle(Start, JobOutputMsg(content)) :
            /\ InBounds(t)
            /\ Commit(t)
            /\ last_event' = Event("JobOutput", "")

(* run: Event::Key(key) with key.code == KeyCode::Char('q') -> return Ok(()) *)
QuitKey ==
    /\ status = "running"
    /\ \E key \in Keys :
        /\ key.code = "q"
        /\ Commit([Start EXCEPT !.status = "quit"])
        /\ last_event' = Event("Key", key.code)

(* run: Event::Key(key) -> self.handle(AppMessage::Key(key)) *)
KeyInput ==
    /\ status = "running"
    /\ \E key \in Keys :
        /\ key.code # "q"
        /\ \E t \in handle(Start, key) :
            /\ InBounds(t)
            /\ Commit(t)
            /\ last_event' = Event("Key", key.code)

(* run: Event::Mouse(mouse) -> self.handle_mouse(mouse) *)
MouseInput ==
    /\ status = "running"
    /\ \E mouse \in MouseEvents :
        LET t == handle_mouse(Start, mouse)
        IN  /\ InBounds(t)
            /\ Commit(t)
            /\ last_event' = MouseEvent(Start, mouse)

Next == ReceiveJobs \/ ReceiveJobOutput \/ QuitKey \/ KeyInput \/ MouseInput

Spec == Init /\ [][Next]_vars

----------------------------------------------------------------------------
(* The projection alone: update_display_jobs applied to every job list of  *)
(* up to MaxJobs pool jobs under every view mode.                          *)

JobLists == UNION { [1..n -> JobPool] : n \in 0..MaxJobs }

ViewModes == {AllJobs} \cup { ArrayJobDetails(id) : id \in {"100", "200", "300"} }

InitProject ==
    /\ status = "running"
    /\ dialog = None
    /\ view_mode \in ViewModes
    /\ jobs \in JobLists
    /\ display_jobs = <<>>
    /\ original_squeue_args \in StartupArgs
    /\ squeue_args = original_squeue_args
    /\ selected = Some(0)
    /\ scrollbar = [content_length |-> 0, position |-> 0]
    /\ job_list_scrollbar_area = ui_areas(Terminal).job_list_scrollbar_area
    /\ job_list_area = ui_areas(Terminal).job_list_area
    /\ job_output_area = ui_areas(Terminal).job_output_area
    /\ job_output = Ok("")
    /\ job_output_anchor = "Bottom"
    /\ job_output_offset = 0
    /\ job_output_wrap = FALSE
    /\ watched_path = None
    /\ output_file_view = "Stdout"
    /\ is_dragging_scrollbar = FALSE
    /\ scancel = <<>>
    /\ last_event = NoEvent
    /\ NoEnv

UpdateDisplayJobs ==
    /\ last_event = NoEvent
    /\ \E t \in update_display_jobs(Self) :
        /\ Commit(t)
        /\ last_event' = Event("Update", "")

NextProject == UpdateDisplayJobs

SpecProject == InitProject /\ [][NextProject]_vars

Projected == last_event = Event("Update", "")

----------------------------------------------------------------------------
(* The scrollbar alone: presses, drags and releases on the scrollbar of a  *)
(* list of 0..MaxRows rows, in terminals of MinTermHeight and of           *)
(* MaxTermHeight lines.                                                    *)

(* the shortest terminal that gives every pane of ui its minimum height:   *)
(* 7 lines of details, 3 of log, 1 of help                                 *)
MinTermHeight == 11

(* n standalone jobs, as a job-set message delivers them *)
QueueOf(n) ==
    [i \in 1..n |-> Job(ToString(i), ToString(i), None, "job", Some("/o"), None)]

InitBar ==
    /\ status = "running"
    /\ dialog = None
    /\ view_mode = AllJobs
    /\ jobs \in { QueueOf(n) : n \in 0..MaxRows }
    /\ display_jobs \in Project(jobs, view_mode)
    /\ original_squeue_args \in StartupArgs
    /\ squeue_args = original_squeue_args
    /\ selected = Some(0)
    /\ scrollbar = [content_length |-> Len(display_jobs), position |-> 0]
    /\ \E h \in {MinTermHeight, MaxTermHeight} :
          LET areas == ui_areas([width |-> 100, height |-> h, list_width |-> 49])
          IN  /\ job_list_scrollbar_area = areas.job_list_scrollbar_area
              /\ job_list_area = areas.job_list_area
              /\ job_output_area = areas.job_output_area
    /\ job_output = Ok("")
    /\ job_output_anchor = "Bottom"
    /\ job_output_offset = 0
    /\ job_output_wrap = FALSE
    /\ watched_path = (IF display_jobs = <<>> THEN None ELSE display_jobs[1].stdout)
    /\ output_file_view = "Stdout"
    /\ is_dragging_scrollbar = FALSE
    /\ scancel = <<>>
    /\ last_event = Event("Jobs", "")
    /\ NoEnv

(* presses and drags in the scrollbar column, on every row of the         *)
(* scrollbar and on the help line below it; a press beside the scrollbar;  *)
(* a release                                                               *)
BarMouseEvents ==
    { Mouse(kind, 0, row) :
        kind \in {"DownLeft", "DragLeft"}, row \in 0..job_list_scrollbar_area.height }
        \cup { Mouse("DownLeft", 1, 0), Mouse("UpLeft", 0, 0) }

BarMouseInput ==
    /\ status = "running"
    /\ \E mouse \in BarMouseEvents :
        /\ Commit(handle_mouse(Start, mouse))
        /\ last_event' = PointerEvent(Start, mouse)

NextBar == BarMouseInput

SpecBar == InitBar /\ [][NextBar]_vars

----------------------------------------------------------------------------
(* Log scrolling alone: PageUp, PageDown and the wheel, from every offset  *)
(* within MaxScroll of 0 and of u16::MAX under either anchor.              *)

ScrollWindow == (0..MaxScroll) \cup ((U16Max - MaxScroll)..U16Max)

InitScroll ==
    /\ status = "running"
    /\ dialog = None
    /\ view_mode = AllJobs
    /\ jobs = <<>>
    /\ display_jobs = <<>>
    /\ original_squeue_args \in StartupArgs
    /\ squeue_args = original_squeue_args
    /\ selected = Some(0)
    /\ scrollbar = [content_length |-> 0, position |-> 0]
    /\ job_list_scrollbar_area = ui_areas(Terminal).job_list_scrollbar_area
    /\ job_list_area = ui_areas(Terminal).job_list_area
    /\ job_output_area = ui_areas(Terminal).job_output_area
    /\ job_output = Ok("")
    /\ job_output_anchor \in {"Top", "Bottom"}
    /\ job_output_offset \in ScrollWindow
    /\ job_output_wrap = FALSE
    /\ watched_path = None
    /\ output_file_view = "Stdout"
    /\ is_dragging_scrollbar = FALSE
    /\ scancel = <<>>
    /\ last_event = NoEvent
    /\ NoEnv

InWindow(t) == t.job_output_offset \in ScrollWindow

ScrollKeys == { Key(code, mod) : code \in {"PageDown", "PageUp"}, mod \in BOOLEAN }

(* wheel steps over the log pane and over the help line *)
ScrollMouseEvents ==
    { Mouse(kind, p[1], p[2]) :
        kind \in {"ScrollUp", "ScrollDown"}, p \in {<<50, 8>>, <<50, 11>>} }

ScrollKeyInput ==
    /\ status = "running"
    /\ \E key \in ScrollKeys :
        \E t \in handle(Start, key) :
            /\ InWindow(t)
            /\ Commit(t)
            /\ last_event' = KeyEvent(key)

ScrollMouseInput ==
    /\ status = "running"
    /\ \E mouse \in ScrollMouseEvents :
        LET t == handle_mouse(Start, mouse)
        IN  /\ InWindow(t)
            /\ Commit(t)
            /\ last_event' = MouseEvent(Start, mouse)

NextScroll == ScrollKeyInput \/ ScrollMouseInput

SpecScroll == InitScroll /\ [][NextScroll]_vars

----------------------------------------------------------------------------
(* The engine together with the file watcher. The watcher is a thread of   *)
(* crate::file_watcher behind App.job_output_watcher; it is modelled from  *)
(* its contract: set_file_path is a request that the thread adopts at a    *)
(* later tick, and each tick with a path set reads the file and sends its  *)
(* content or a failure on App.receiver. What is read from the file at     *)
(* path p is written Ok(p) or Err(p): the payload itself carries no path.  *)
(* The channel holds the file watcher's messages; job-set messages arrive  *)
(* as in Spec.                                                             *)

ReadOf(path) == { Ok(path), Err(path) }

(* the thread adopts the path last requested by set_file_path *)
WatcherSwitch ==
    /\ status = "running"
    /\ job_output_watcher.path # watched_path
    /\ job_output_watcher' = [path |-> watched_path]
    /\ UNCHANGED <<receiver, run, call, last_event>>
    /\ CommitApp(Self)

(* a tick: the file at the thread's path is read and the result is sent *)
WatcherTick ==
    /\ status = "running"
    /\ job_output_watcher.path # None
    /\ Len(receiver) < MaxInFlight
    /\ \E content \in ReadOf(job_output_watcher.path[1]) :
            receiver' = Append(receiver, JobOutputMsg(content))
    /\ UNCHANGED <<job_output_watcher, run, call, last_event>>
    /\ CommitApp(Self)

(* run: recv(self.receiver) -> self.handle(event), for a file-content message *)
WatchReceive ==
    /\ status = "running"
    /\ receiver # <<>>
    /\ \E t \in handle(Start, Head(receiver)) : CommitApp(t)
    /\ receiver' = Tail(receiver)
    /\ last_event' = Event("JobOutput", "")
    /\ UNCHANGED <<job_output_watcher, run, call>>

WatchSnapshots == { <<PoolJob("1"), PoolJob("2"), PoolJob("3")>> }

WatchReceiveJobs ==
    /\ status = "running"
    /\ \E js \in WatchSnapshots :
        \E t \in handle(Start, JobsMsg(js)) :
            /\ Commit(t)
            /\ last_event' = Event("Jobs", "")

(* the keys that change the target path, and the dialog keys *)
WatchKeys == { Key(code, FALSE) : code \in {"j", "k", "o", "c", "Esc"} }

WatchKeyInput ==
    /\ status = "running"
    /\ \E key \in WatchKeys :
        \E t \in handle(Start, key) :
            /\ Commit(t)
            /\ last_event' = Event("Key", key.code)

InitWatch ==
    /\ status = "running"
    /\ dialog = None
    /\ view_mode = AllJobs
    /\ jobs = <<>>
    /\ display_jobs = <<>>
    /\ original_squeue_args \in StartupArgs
    /\ squeue_args = original_squeue_args
    /\ selected = Some(0)
    /\ scrollbar = [content_length |-> 0, position |-> 0]
    /\ job_list_scrollbar_area = ui_areas(Terminal).job_list_scrollbar_area
    /\ job_list_area = ui_areas(Terminal).job_list_area
    /\ job_output_area = ui_areas(Terminal).job_output_area
    /\ job_output = Ok("")
    /\ job_output_anchor = "Bottom"
    /\ job_output_offset = 0
    /\ job_output_wrap = FALSE
    /\ watched_path = None
    /\ output_file_view = "Stdout"
    /\ is_dragging_scrollbar = FALSE
    /\ scancel = <<>>
    /\ last_event = NoEvent
    /\ receiver = <<>>
    /\ job_output_watcher = [path |-> None]
    /\ run = None
    /\ call = None

NextWatch ==
    WatcherSwitch \/ WatcherTick \/ WatchReceive \/ WatchReceiveJobs \/ WatchKeyInput

(* the watcher runs on its own timer, and a message waiting on the channel *)
(* stays ready until select! takes it                                      *)
SpecWatch ==
    /\ InitWatch
    /\ [][NextWatch]_vars
    /\ WF_vars(WatcherSwitch)
    /\ WF_vars(WatcherTick)
    /\ WF_vars(WatchReceive)

----------------------------------------------------------------------------
(* The loop of run, one step per select! arm and one for the redraw at the *)
(* end of the iteration. run.pc is "select" at the select! (the timeout    *)
(* for it is run.timeout) and "redraw" after it. The watcher messages wait *)
(* in receiver and the terminal events in run.input (App.input_receiver),  *)
(* up to MaxInFlight each. run.terminal is the size of the terminal and    *)
(* run.drew tells whether the iteration drew.                              *)

(* the terminal after a resize *)
SmallTerminal == [width |-> 100, height |-> 11, list_width |-> 49]

(* crossterm::event::Event *)
KeyInputEvent(key) == <<"Key", key>>

MouseInputEvent(mouse) == <<"Mouse", mouse>>

ResizeEvent(term) == <<"Resize", term>>

FocusGained == <<"FocusGained">>

LoopInputs ==
    { KeyInputEvent(Key(code, FALSE)) : code \in {"j", "c", "y", "q"} }
        \cup { MouseInputEvent(Mouse("ScrollDown", 1, 3)),
               MouseInputEvent(Mouse("DownLeft", 0, 9)) }
        \cup { ResizeEvent(Terminal), ResizeEvent(SmallTerminal), FocusGained }

LoopMessages ==
    { JobsMsg(<<PoolJob("1"), PoolJob("2"), PoolJob("3")>>),
      JobOutputMsg(Err("NotFound")) }

InitLoop ==
    /\ status = "running"
    /\ dialog = None
    /\ view_mode = AllJobs
    /\ jobs = <<>>
    /\ display_jobs = <<>>
    /\ original_squeue_args \in StartupArgs
    /\ squeue_args = original_squeue_args
    /\ selected = Some(0)
    /\ scrollbar = [content_length |-> 0, position |-> 0]
    /\ job_list_scrollbar_area = ui_areas(Terminal).job_list_scrollbar_area
    /\ job_list_area = ui_areas(Terminal).job_list_area
    /\ job_output_area = ui_areas(Terminal).job_output_area
    /\ job_output = Ok("")
    /\ job_output_anchor = "Bottom"
    /\ job_output_offset = 0
    /\ job_output_wrap = FALSE
    /\ watched_path = None
    /\ output_file_view = "Stdout"
    /\ is_dragging_scrollbar = FALSE
    /\ scancel = <<>>
    /\ last_event = NoEvent
    /\ receiver = <<>>
    /\ job_output_watcher = None
    /\ run = [pc |-> "select", needs_redraw |-> FALSE, is_scrolling |-> FALSE,
              timeout |-> "long", drew |-> FALSE, input |-> <<>>,
              terminal |-> Terminal]
    /\ call = None

(* a watcher sends a message; the terminal delivers an event *)
WatcherSends ==
    /\ status = "running"
    /\ Len(receiver) < MaxInFlight
    /\ \E msg \in LoopMessages : receiver' = Append(receiver, msg)
    /\ UNCHANGED <<job_output_watcher, run, call, last_event>>
    /\ CommitApp(Self)

TerminalInput ==
    /\ status = "running"
    /\ Len(run.input) < MaxInFlight
    /\ \E ev \in LoopInputs : run' = [run EXCEPT !.input = Append(run.input, ev)]
    /\ UNCHANGED <<receiver, job_output_watcher, call, last_event>>
    /\ CommitApp(Self)

AtSelect == status = "running" /\ run.pc = "select"

(* recv(self.receiver) -> event *)
LoopReceive ==
    /\ AtSelect
    /\ receiver # <<>>
    /\ \E t \in handle(Start, Head(receiver)) : CommitApp(t)
    /\ receiver' = Tail(receiver)
    /\ run' = [run EXCEPT !.needs_redraw = TRUE, !.is_scrolling = FALSE,
                          !.pc = "redraw", !.drew = FALSE]
    /\ last_event' = Event(Head(receiver).type, "")
    /\ UNCHANGED <<job_output_watcher, call>>

(* mutant of LoopQuit: the 'q' key is handed to the key handler like any   *)
(* other key and the loop goes on                                          *)
LoopQuit_HandsToHandler ==
    /\ AtSelect
    /\ run.input # <<>>
    /\ Head(run.input)[1] = "Key"
    /\ Head(run.input)[2].code = "q"
    /\ \E t \in handle(Start, Head(run.input)[2]) : CommitApp(t)
    /\ run' = [run EXCEPT !.input = Tail(run.input), !.needs_redraw = TRUE,
                          !.is_scrolling = FALSE, !.pc = "redraw", !.drew = FALSE]
    /\ last_event' = Event("Key", "q")
    /\ UNCHANGED <<receiver, job_output_watcher, call>>

(* recv(self.input_receiver): Event::Key with KeyCode::Char('q') *)
LoopQuit ==
    /\ AtSelect
    /\ run.input # <<>>
    /\ Head(run.input)[1] = "Key"
    /\ Head(run.input)[2].code = "q"
    /\ CommitApp([Start EXCEPT !.status = "quit"])
    /\ run' = [run EXCEPT !.input = Tail(run.input), !.drew = FALSE]
    /\ last_event' = Event("Key", "q")
    /\ UNCHANGED <<receiver, job_output_watcher, call>>

(* recv(self.input_receiver): any other Event::Key *)
LoopKey ==
    /\ AtSelect
    /\ run.input # <<>>
    /\ Head(run.input)[1] = "Key"
    /\ Head(run.input)[2].code # "q"
    /\ \E t \in handle(Start, Head(run.input)[2]) : CommitApp(t)
    /\ run' = [run EXCEPT !.input = Tail(run.input), !.needs_redraw = TRUE,
                          !.is_scrolling = FALSE, !.pc = "redraw", !.drew = FALSE]
    /\ last_event' = Event("Key", Head(run.input)[2].code)
    /\ UNCHANGED <<receiver, job_output_watcher, call>>

(* recv(self.input_receiver): Event::Mouse *)
LoopMouse ==
    /\ AtSelect
    /\ run.input # <<>>
    /\ Head(run.input)[1] = "Mouse"
    /\ CommitApp(handle_mouse(Start, Head(run.input)[2]))
    /\ run' = [run EXCEPT !.input = Tail(run.input), !.needs_redraw = TRUE,
                          !.is_scrolling =
                              Head(run.input)[2].kind \in {"ScrollUp", "ScrollDown"},
                          !.pc = "redraw", !.drew = FALSE]
    /\ last_event' = MouseEvent(Start, Head(run.input)[2])
    /\ UNCHANGED <<receiver, job_output_watcher, call>>

(* recv(self.input_receiver): Event::Resize *)
LoopResize ==
    /\ AtSelect
    /\ run.input # <<>>
    /\ Head(run.input)[1] = "Resize"
    /\ CommitApp(Start)
    /\ run' = [run EXCEPT !.input = Tail(run.input), !.needs_redraw = TRUE,
                          !.is_scrolling = FALSE, !.pc = "redraw", !.drew = FALSE,
                          !.terminal = Head(run.input)[2]]
    /\ last_event' = Event("Resize", "")
    /\ UNCHANGED <<receiver, job_output_watcher, call>>

(* recv(self.input_receiver): any other event; continue skips the redraw   *)
(* and the next iteration computes its timeout                             *)
LoopIgnore ==
    /\ AtSelect
    /\ run.input # <<>>
    /\ Head(run.input)[1] \notin {"Key", "Mouse", "Resize"}
    /\ CommitApp(Start)
    /\ run' = [run EXCEPT !.input = Tail(run.input), !.is_scrolling = FALSE,
                          !.timeout = "long", !.drew = FALSE]
    /\ last_event' = Event("Ignored", "")
    /\ UNCHANGED <<receiver, job_output_watcher, call>>

(* mutant of LoopTimeout: the timeout asks for a redraw *)
LoopTimeout_Redraws ==
    /\ AtSelect
    /\ receiver = <<>>
    /\ run.input = <<>>
    /\ CommitApp(Start)
    /\ run' = [run EXCEPT !.needs_redraw = TRUE, !.is_scrolling = FALSE,
                          !.pc = "redraw", !.drew = FALSE]
    /\ last_event' = Event("Timeout", "")
    /\ UNCHANGED <<receiver, job_output_watcher, call>>

(* default(timeout): no source became ready *)
LoopTimeout ==
    /\ AtSelect
    /\ receiver = <<>>
    /\ run.input = <<>>
    /\ CommitApp(Start)
    /\ run' = [run EXCEPT !.is_scrolling = FALSE, !.pc = "redraw", !.drew = FALSE]
    /\ last_event' = Event("Timeout", "")
    /\ UNCHANGED <<receiver, job_output_watcher, call>>

(* if needs_redraw { terminal.draw(|f| self.ui(f)) }, then the top of the  *)
(* loop: the timeout of the next select!                                   *)
LoopRedraw ==
    /\ status = "running"
    /\ run.pc = "redraw"
    /\ IF run.needs_redraw
       THEN CommitApp([Self EXCEPT
                !.job_list_scrollbar_area = ui_areas(run.terminal).job_list_scrollbar_area,
                !.job_list_area = ui_areas(run.terminal).job_list_area,
                !.job_output_area = ui_areas(run.terminal).job_output_area])
       ELSE CommitApp(Self)
    /\ run' = [run EXCEPT !.drew = run.needs_redraw, !.needs_redraw = FALSE,
                          !.pc = "select",
                          !.timeout = IF run.is_scrolling THEN "scroll" ELSE "long"]
    /\ UNCHANGED <<receiver, job_output_watcher, call, last_event>>

NextLoop ==
    \/ WatcherSends
    \/ TerminalInput
    \/ LoopReceive
    \/ LoopQuit
    \/ LoopKey
    \/ LoopMouse
    \/ LoopResize
    \/ LoopIgnore
    \/ LoopTimeout
    \/ LoopRedraw

SpecLoop == InitLoop /\ [][NextLoop]_vars

(* The scheduling of run. select! takes one of the ready operations at     *)
(* random, so an input event that is ready again and again is not passed   *)
(* over for ever: strong fairness of the input arm (LoopQuit, LoopKey,     *)
(* LoopMouse, LoopResize, LoopIgnore: the head of the channel enables      *)
(* exactly one of them, and they are the steps that take an event from     *)
(* it). An iteration that has left the select! runs to its end: weak       *)
(* fairness of LoopRedraw. Both are written with the guard of the action   *)
(* in the place of ENABLED.                                                *)
SpecLoopFair ==
    /\ SpecLoop
    /\ []<>(AtSelect /\ run.input # <<>>)
            => []<><<Len(run'.input) < Len(run.input)>>_vars
    /\ []<>(~(status = "running" /\ run.pc = "redraw"))

----------------------------------------------------------------------------
(* chunked_string. A &str is the sequence of its UTF-8 bytes; the byte     *)
(* <<c, k>> is the k-th byte of an encoding of the character c, so that a  *)
(* character boundary is a byte with k = 1.                                *)

(* the characters of the model and the length of their encodings *)
Alphabet == {"a", "b", "e'"}

len_utf8(c) ==
    CASE c = "e'" -> 2
      [] c \in {"hook", "ellipsis"} -> 3
      [] OTHER -> 1

(* the &str of a sequence of characters *)
RECURSIVE Str(_)
Str(chars) ==
    IF chars = <<>>
    THEN <<>>
    ELSE [k \in 1..len_utf8(Head(chars)) |-> <<Head(chars), k>>] \o Str(Tail(chars))

(* s.char_indices().map(|(i, _)| i): the byte offset of every character *)
char_indices(s) ==
    SelectSeq([i \in 1..Len(s) |-> i - 1], LAMBDA i : s[i + 1][2] = 1)

(* mutant of is_stepped: the index first_chunk_size is tested as a later one *)
is_stepped_AtFirst(i, first_chunk_size, chunk_size) ==
    IF i >= first_chunk_size /\ i > 0
    THEN chunk_size > 0 /\ (i - first_chunk_size) % chunk_size = 0
    ELSE i = 0 \/ i = first_chunk_size

(* the filter on the enumerated character indices *)
is_stepped(i, first_chunk_size, chunk_size) ==
    IF i > first_chunk_size
    THEN chunk_size > 0 /\ (i - first_chunk_size) % chunk_size = 0
    ELSE i = 0 \/ i = first_chunk_size

(* stepped_indices: the byte offsets of the characters the filter keeps *)
stepped_indices(s, first_chunk_size, chunk_size) ==
    LET indices == char_indices(s)
        kept == SelectSeq([k \in 1..Len(indices) |-> k - 1],
                          LAMBDA i : is_stepped(i, first_chunk_size, chunk_size))
    IN  [k \in 1..Len(kept) |-> indices[kept[k] + 1]]

(* &s[from..to] *)
slice(s, from, to) == SubSeq(s, from + 1, to)

(* mutant of chunked_string: the piece after the last index is left out *)
chunked_string_NoTail(s, first_chunk_size, chunk_size) ==
    LET stepped == stepped_indices(s, first_chunk_size, chunk_size)
    IN  [w \in 1..(Len(stepped) - 1) |-> slice(s, stepped[w], stepped[w + 1])]

(* chunked_string *)
chunked_string(s, first_chunk_size, chunk_size) ==
    LET stepped == stepped_indices(s, first_chunk_size, chunk_size)
        windows == [w \in 1..(Len(stepped) - 1) |-> <<stepped[w], stepped[w + 1]>>]
        last_index == IF stepped = <<>> THEN 0 ELSE stepped[Len(stepped)]
    IN  [w \in 1..Len(windows) |-> slice(s, windows[w][1], windows[w][2])]
            \o <<slice(s, last_index, Len(s))>>

(* App::new: the fields of the App *)
AppNew ==
    /\ status = "running"
    /\ dialog = None
    /\ view_mode = AllJobs
    /\ jobs = <<>>
    /\ display_jobs = <<>>
    /\ original_squeue_args \in StartupArgs
    /\ squeue_args = original_squeue_args
    /\ selected = Some(0)
    /\ scrollbar = [content_length |-> 0, position |-> 0]
    /\ job_list_scrollbar_area = ui_areas(Terminal).job_list_scrollbar_area
    /\ job_list_area = ui_areas(Terminal).job_list_area
    /\ job_output_area = ui_areas(Terminal).job_output_area
    /\ job_output = Ok("")
    /\ job_output_anchor = "Bottom"
    /\ job_output_offset = 0
    /\ job_output_wrap = FALSE
    /\ watched_path = None
    /\ output_file_view = "Stdout"
    /\ is_dragging_scrollbar = FALSE
    /\ scancel = <<>>

(* the concatenation of a sequence of strings *)
RECURSIVE Concat(_)
Concat(pieces) == IF pieces = <<>> THEN <<>> ELSE Head(pieces) \o Concat(Tail(pieces))

(* the strings of up to MaxLen characters *)
Strings == { Str(chars) : chars \in UNION { [1..n -> Alphabet] : n \in 0..MaxLen } }

(* a call of chunked_string before it returns *)
ChunkCall(s, first_chunk_size, chunk_size) ==
    [s |-> s, first_chunk_size |-> first_chunk_size, chunk_size |-> chunk_size,
     result |-> None]

InitChunk ==
    /\ AppNew
    /\ last_event = NoEvent
    /\ receiver = None
    /\ job_output_watcher = None
    /\ run = None
    /\ call \in { ChunkCall(s, first_chunk_size, chunk_size) :
                    s \in Strings,
                    first_chunk_size \in 0..MaxChunk,
                    chunk_size \in 0..MaxChunk }

ChunkedString ==
    /\ call.result = None
    /\ call' = [call EXCEPT
                   !.result = Some(chunked_string(call.s, call.first_chunk_size,
                                                  call.chunk_size))]
    /\ CommitApp(Self)
    /\ UNCHANGED <<last_event, receiver, job_output_watcher, run>>

NextChunk == ChunkedString

SpecChunk == InitChunk /\ [][NextChunk]_vars

----------------------------------------------------------------------------
(* fit_text. The content is a &str as above; a Line is the sequence of its *)
(* Spans; the iterator chain is followed pull by pull.                     *)

(* &['\r', '\n'] *)
Delimiters == {"\r", "\n"}

(* s.chars() *)
str_chars(s) ==
    LET firsts == SelectSeq(s, LAMBDA b : b[2] = 1)
    IN  [i \in 1..Len(firsts) |-> firsts[i][1]]

(* s.rsplit_once(&['\r', '\n']): the parts around the last delimiter *)
rsplit_once(s) ==
    LET found == { i \in 1..Len(s) : s[i][1] \in Delimiters }
    IN  IF found = {}
        THEN None
        ELSE LET i == CHOOSE k \in found : \A j \in found : j <= k
             IN  Some(<<SubSeq(s, 1, i - 1), SubSeq(s, i + 1, Len(s))>>)

(* s.split_inclusive(c): the pieces end with c, the last one perhaps not *)
RECURSIVE split_inclusive(_, _)
split_inclusive(s, c) ==
    LET found == { i \in 1..Len(s) : s[i][1] = c }
    IN  IF s = <<>>
        THEN <<>>
        ELSE IF found = {}
        THEN <<s>>
        ELSE LET i == CHOOSE k \in found : \A j \in found : k <= j
             IN  <<SubSeq(s, 1, i)>> \o split_inclusive(SubSeq(s, i + 1, Len(s)), c)

(* s.strip_suffix(c) *)
strip_suffix(s, c) ==
    IF s # <<>> /\ s[Len(s)][1] = c
    THEN Some(SubSeq(s, 1, Len(s) - 1))
    ELSE None

(* s.lines(): the pieces of split_inclusive('\n') without their "\n" or    *)
(* "\r\n"                                                                  *)
lines(s) ==
    LET pieces == split_inclusive(s, "\n")
    IN  [k \in 1..Len(pieces) |->
            LET line == strip_suffix(pieces[k], "\n")
            IN  IF line = None
                THEN pieces[k]
                ELSE unwrap_or(strip_suffix(line[1], "\r"), line[1])]

(* s.split(c): the pieces between the occurrences of c, at least one *)
RECURSIVE split(_, _)
split(s, c) ==
    LET found == { i \in 1..Len(s) : s[i][1] = c }
    IN  IF found = {}
        THEN <<s>>
        ELSE LET i == CHOOSE k \in found : \A j \in found : k <= j
             IN  <<SubSeq(s, 1, i - 1)>> \o split(SubSeq(s, i + 1, Len(s)), c)

(* Iterator::rev, skip, take and nth on the items of an iterator *)
rev(items) == [i \in 1..Len(items) |-> items[Len(items) + 1 - i]]

skip_SavesOne(items, n) ==
    IF n = 0 THEN items ELSE SubSeq(items, n, Len(items))

skip(items, n) ==
    IF n >= Len(items) THEN <<>> ELSE SubSeq(items, n + 1, Len(items))

take(items, n) ==
    IF n >= Len(items) THEN items ELSE SubSeq(items, 1, n)

nth(items, n) == IF n < Len(items) THEN Some(items[n + 1]) ELSE None

(* s.lines().flat_map(|l| l.split('\r')) *)
RECURSIVE flat_map_split(_)
flat_map_split(ls) ==
    IF ls = <<>>
    THEN <<>>
    ELSE split(Head(ls), "\r") \o flat_map_split(Tail(ls))

(* the logical lines of the content, first to last *)
logical_lines(s) ==
    LET split_once == rsplit_once(s)
    IN  flat_map_split(lines(IF split_once = None THEN s ELSE split_once[1][1]))

(* Span::raw and Span::styled(.., DIM); Line::raw *)
Span(content, style) == [content |-> content, style |-> style]

Line_raw(content) == <<Span(content, "")>>

(* s[from..to] panics unless from <= to <= len and both are boundaries *)
is_char_boundary(s, i) == i = Len(s) \/ (i < Len(s) /\ s[i + 1][2] = 1)

slice_panics(s, from, to) ==
    \/ from > to
    \/ ~is_char_boundary(s, from)
    \/ ~is_char_boundary(s, to)

chunked_string_panics(s, first_chunk_size, chunk_size) ==
    LET stepped == stepped_indices(s, first_chunk_size, chunk_size)
        last_index == IF stepped = <<>> THEN 0 ELSE stepped[Len(stepped)]
    IN  \/ \E w \in 1..(Len(stepped) - 1) : slice_panics(s, stepped[w], stepped[w + 1])
        \/ slice_panics(s, last_index, Len(s))

(* the wrapped lines of a logical line *)
(* mutant of wrapped: the first chunk is cut as the truncated line is *)
wrapped_FirstChunkShort(l, cols) ==
    LET pieces == chunked_string(l, cols, saturating_sub(cols, 2))
    IN  [i \in 1..Len(pieces) |->
            IF i = 1
            THEN Line_raw(Str(take(str_chars(pieces[i]), saturating_sub(cols, 1))))
            ELSE <<Span(Str(<<"hook", " ">>), "DIM"),
                   Span(Str(take(str_chars(pieces[i]), saturating_sub(cols, 2))), "")>>]

wrapped(l, cols) ==
    LET pieces == chunked_string(l, cols, saturating_sub(cols, 2))
    IN  [i \in 1..Len(pieces) |->
            IF i = 1
            THEN Line_raw(Str(take(str_chars(pieces[i]), cols)))
            ELSE <<Span(Str(<<"hook", " ">>), "DIM"),
                   Span(Str(take(str_chars(pieces[i]), saturating_sub(cols, 2))), "")>>]

(* the one line of a logical line that is not wrapped *)
truncated(l, cols) ==
    IF nth(str_chars(l), cols) # None
    THEN << <<Span(Str(take(str_chars(l), saturating_sub(cols, 1))), ""),
              Span(Str(<<"ellipsis">>), "DIM")>> >>
    ELSE <<Line_raw(Str(take(str_chars(l), cols)))>>

(* the closure of the flat_map: the Lines of one logical line, in the      *)
(* order of the traversal                                                  *)
rendered_lines(l, cols, anchor, wrap) ==
    LET iter == IF wrap THEN wrapped(l, cols) ELSE truncated(l, cols)
    IN  IF anchor = "Top" THEN iter ELSE rev(iter)

(* fit_text up to its final match: the iterator chain, nothing pulled yet. *)
(* iter holds the logical lines not yet pulled, n what skip has left to    *)
(* skip, remaining what take has left to yield, frontiter the Lines of the *)
(* logical line the flat_map is at.                                        *)
fit_text(s, lines_, cols, anchor, offset, wrap) ==
    [s |-> s, lines |-> lines_, cols |-> cols, anchor |-> anchor,
     offset |-> offset, wrap |-> wrap,
     pc |-> "collect",
     iter |-> IF anchor = "Top" THEN logical_lines(s) ELSE rev(logical_lines(s)),
     n |-> offset,
     remaining |-> lines_,
     frontiter |-> <<>>,
     collected |-> <<>>,
     result |-> None]

(* the final match on the anchor *)
collect(c) ==
    [c EXCEPT !.pc = "done",
              !.result = Some(IF c.anchor = "Top" THEN c.collected ELSE rev(c.collected))]

(* one call of next() by collect on take(lines) of the flat_map of the     *)
(* skip(offset)                                                            *)
take_next_PullsFirst(c) ==
    LET rest == skip(c.iter, c.n)
    IN  IF c.frontiter # <<>>
        THEN IF c.remaining = 0
             THEN collect(c)
             ELSE [c EXCEPT !.collected = Append(@, Head(c.frontiter)),
                            !.frontiter = Tail(@),
                            !.remaining = @ - 1]
        ELSE IF rest = <<>>
        THEN collect([c EXCEPT !.iter = <<>>, !.n = 0])
        ELSE IF c.remaining = 0
        THEN collect([c EXCEPT !.iter = Tail(rest), !.n = 0])
        ELSE LET ls == rendered_lines(Head(rest), c.cols, c.anchor, c.wrap)
             IN  [c EXCEPT !.iter = Tail(rest), !.n = 0,
                           !.collected = Append(@, Head(ls)),
                           !.frontiter = Tail(ls),
                           !.remaining = @ - 1]

take_next(c) ==
    LET rest == skip(c.iter, c.n)
    IN  IF c.remaining = 0
        THEN collect(c)
        ELSE IF c.frontiter # <<>>
        THEN [c EXCEPT !.collected = Append(@, Head(c.frontiter)),
                       !.frontiter = Tail(@),
                       !.remaining = @ - 1]
        ELSE IF rest = <<>>
        THEN collect([c EXCEPT !.iter = <<>>, !.n = 0])
        ELSE IF c.wrap /\ chunked_string_panics(Head(rest), c.cols,
                                                saturating_sub(c.cols, 2))
        THEN [c EXCEPT !.pc = "panicked", !.iter = Tail(rest), !.n = 0]
        ELSE LET ls == rendered_lines(Head(rest), c.cols, c.anchor, c.wrap)
             IN  [c EXCEPT !.iter = Tail(rest), !.n = 0,
                           !.collected = Append(@, Head(ls)),
                           !.frontiter = Tail(ls),
                           !.remaining = @ - 1]

(* the logs: up to MaxLogical terminated lines and what has been written   *)
(* of the next one                                                         *)
LogLines ==
    { Str(cs) : cs \in {<<>>, <<"a">>, <<"e'", "a">>, <<"a", "e'", "b", "a", "b">>} }

Terminated == { l \o Str(<<d>>) : l \in LogLines, d \in Delimiters }

InProgress == { Str(<<>>), Str(<<"c">>) }

Contents ==
    { Concat(ls) \o f :
        ls \in UNION { [1..k -> Terminated] : k \in 0..MaxLogical },
        f \in InProgress }

InitFit ==
    /\ AppNew
    /\ last_event = NoEvent
    /\ receiver = None
    /\ job_output_watcher = None
    /\ run = None
    /\ call \in { fit_text(s, lines_, cols, anchor, offset, wrap) :
                    s \in Contents,
                    lines_ \in 0..MaxLines,
                    cols \in 0..MaxCols,
                    anchor \in {"Top", "Bottom"},
                    offset \in 0..MaxOffset,
                    wrap \in BOOLEAN }

FitText ==
    /\ call.pc = "collect"
    /\ call' = take_next(call)
    /\ CommitApp(Self)
    /\ UNCHANGED <<last_event, receiver, job_output_watcher, run>>

NextFit == FitText

SpecFit == InitFit /\ [][NextFit]_vars

----------------------------------------------------------------------------
(* C1: after every state mutation the file watcher's target path is the    *)
(* stdout or stderr path (per the active stream) of the selected display   *)
(* row, or no path when there is no such row or the row has no such path.  *)
C1_WatcherFollowsSelection == watched_path = TargetPath(Self)

(* C2: a job-set message does not reset the selection: the index is kept   *)
(* when it is still a valid row index of the new list and otherwise        *)
(* clamped into [0, N-1] for the new row count N.                          *)
C2_JobsKeepOrClampSelection ==
    [][last_event'.type = "Jobs" /\ selected # None /\ selected' # None =>
         LET N == Len(display_jobs')
         IN  IF selected[1] < N
             THEN selected' = selected
             ELSE N > 0 => selected'[1] \in 0..(N - 1)]_vars

(* C7: after every handled event the display list is a projection of the   *)
(* current job list under the current view mode.                           *)
C7_DisplayIsProjection == display_jobs \in Project(jobs, view_mode)

(* a job-set message was handled in a detail view and left rows to show *)
C7_Witness ==
    /\ last_event.type = "Jobs"
    /\ view_mode = ArrayJobDetails("100")
    /\ jobs = <<PoolJob("4"), PoolJob("3"), PoolJob("1")>>
    /\ Len(display_jobs) = 1

(* the key the step services, as last_event records it *)
KeyStep(code) == last_event'.type = "Key" /\ last_event'.code = code

(* the application state C3 speaks of *)
uiState ==
    <<selected, view_mode, job_output_anchor, job_output_offset, output_file_view,
      job_output_wrap, dialog, status>>

(* C3, as stated: while a dialog is open only Enter, 'y' and Esc have any  *)
(* effect; every other key event leaves selection, view mode, anchor,      *)
(* offset, stream, wrap flag, dialog and running/terminated unchanged.     *)
C3_DialogCapturesEveryKey ==
    [][dialog # None /\ last_event'.type = "Key"
           /\ last_event'.code \notin {"Enter", "y", "Esc"}
         => UNCHANGED uiState]_vars

(* C3, amended: while a dialog is open only Enter, 'y', Esc and the quit   *)
(* key 'q' have any effect; 'q' ends the loop and changes nothing else,    *)
(* and every other key event leaves selection, view mode, anchor, offset,  *)
(* stream, wrap flag, dialog and running/terminated unchanged.             *)
C3_DialogCapturesKeysExceptQuit ==
    [][dialog # None /\ last_event'.type = "Key"
           /\ last_event'.code \notin {"Enter", "y", "Esc"}
         => IF KeyStep("q")
            THEN /\ status' = "quit"
                 /\ UNCHANGED <<selected, view_mode, job_output_anchor,
                                job_output_offset, output_file_view,
                                job_output_wrap, dialog>>
            ELSE UNCHANGED uiState]_vars

(* the wrap key was handled while a dialog was open *)
C3_Witness == dialog # None /\ last_event = Event("Key", "w") /\ status = "running"

(* C4: a termination request is issued only by a confirm key (Enter, 'y')  *)
(* while the cancel dialog is open, one request per confirmation, for the  *)
(* id the dialog carries, and the dialog is closed by the same step (a     *)
(* confirmation whose launch fails aborts the application instead and      *)
(* issues nothing); Esc closes the dialog and issues no request; a dialog  *)
(* is opened only by the 'c' key, so no request is issued without one.     *)
C4_CancelProtocol ==
    [][/\ scancel' # <<>> =>
            /\ dialog # None
            /\ KeyStep("Enter") \/ KeyStep("y")
            /\ scancel' = <<dialog[1]>>
            /\ dialog' = None
       /\ dialog # None /\ (KeyStep("Enter") \/ KeyStep("y")) /\ status' = "running" =>
            /\ scancel' = <<dialog[1]>>
            /\ dialog' = None
       /\ dialog # None /\ KeyStep("Esc") => dialog' = None /\ scancel' = <<>>
       /\ dialog = None /\ dialog' # None => KeyStep("c") /\ scancel' = <<>>]_vars

(* the cancellation of the collapsed row of array 100 was confirmed with 'y' *)
C4_Witness ==
    scancel = <<"100_[1-2]">> /\ dialog = None /\ last_event = Event("Key", "y")

(* C5: the view mode becomes ArrayJobDetails(id) only by Enter in AllJobs  *)
(* (no dialog open) on a selected collapsed row whose array id is id; Esc  *)
(* with no dialog open in ArrayJobDetails returns to AllJobs; Enter in     *)
(* ArrayJobDetails never changes the view mode.                            *)
C5_ViewModeTransitions ==
    [][/\ view_mode' # view_mode /\ view_mode' # AllJobs =>
            /\ view_mode = AllJobs
            /\ dialog = None
            /\ KeyStep("Enter")
            /\ SelectedRow(Self) # None
            /\ SelectedRow(Self)[1].is_array
            /\ view_mode' = ArrayJobDetails(SelectedRow(Self)[1].array_id)
       /\ view_mode # AllJobs /\ dialog = None /\ KeyStep("Esc") => view_mode' = AllJobs
       /\ view_mode # AllJobs /\ KeyStep("Enter") => view_mode' = view_mode]_vars

(* Enter on the collapsed row of array 200 has opened its detail view *)
C5_Witness ==
    /\ view_mode = ArrayJobDetails("200")
    /\ last_event = Event("Key", "Enter")
    /\ scancel = <<>>
    /\ selected = Some(0)

(* C6: exiting a detail view leaves the query arguments equal to the       *)
(* startup arguments, the view mode AllJobs and the selection at row 0,    *)
(* whatever the selection was and whatever was handled since the drill-in; *)
(* the startup arguments themselves never change.                          *)
C6_RoundTrip ==
    [][/\ view_mode # AllJobs /\ dialog = None /\ KeyStep("Esc") =>
            /\ view_mode' = AllJobs
            /\ squeue_args' = original_squeue_args
            /\ selected' = Some(0)
       /\ view_mode # AllJobs /\ view_mode' = AllJobs => dialog = None /\ KeyStep("Esc")
       /\ original_squeue_args' = original_squeue_args
       /\ original_squeue_args \in StartupArgs]_vars

(* a detail view entered by drill-in, the selection since moved off row 0, *)
(* the query narrowed, no dialog open: the state an exit starts from       *)
C6_Witness ==
    /\ view_mode = ArrayJobDetails("100")
    /\ squeue_args = <<"--job", "100">>
    /\ selected = Some(1)
    /\ dialog = None
    /\ status = "running"

(* C10: Enter (no dialog open) on a selected collapsed row sets the view   *)
(* mode to ArrayJobDetails of the row's array id, replaces the query       *)
(* arguments by ("--job", id), recomputes the display list and resets the  *)
(* selection to row 0; Enter on a non-array row, on an empty list or with  *)
(* an out-of-range selection changes none of view mode, query arguments    *)
(* and selection.                                                          *)
C10_DrillIn ==
    [][dialog = None /\ KeyStep("Enter") =>
         IF SelectedRow(Self) # None /\ SelectedRow(Self)[1].is_array
         THEN /\ view_mode' = ArrayJobDetails(SelectedRow(Self)[1].array_id)
              /\ squeue_args' = <<"--job", SelectedRow(Self)[1].array_id>>
              /\ display_jobs' =
                    ProjectArrayJobDetails(jobs, SelectedRow(Self)[1].array_id)
              /\ selected' = Some(0)
         ELSE UNCHANGED <<view_mode, squeue_args, selected>>]_vars

(* Enter on the collapsed row of array 100 has opened the detail view with *)
(* its two tasks, the query narrowed and the selection at row 0            *)
C10_Witness ==
    /\ last_event = Event("Key", "Enter")
    /\ view_mode = ArrayJobDetails("100")
    /\ squeue_args = <<"--job", "100">>
    /\ Len(display_jobs) = 2
    /\ selected = Some(0)
    /\ scrollbar.position = 0

----------------------------------------------------------------------------
(* The projection claims, stated on the input job list by counting *)

(* positions of the input jobs without / with an array-task index *)
StandalonePos == { i \in 1..Len(jobs) : jobs[i].array_step = None }

TaskPos == { i \in 1..Len(jobs) : jobs[i].array_step # None }

TaskPosOf(array_id) == { i \in TaskPos : jobs[i].array_id = array_id }

(* positions of the non-collapsed / collapsed display rows *)
PlainRowPos == { k \in 1..Len(display_jobs) : ~display_jobs[k].is_array }

CollapsedRowPos == { k \in 1..Len(display_jobs) : display_jobs[k].is_array }

(* the k-th smallest element of a set of positions *)
Nth(P, k) == CHOOSE i \in P : Cardinality({ m \in P : m < i }) = k - 1

(* the row shows the job as an individual, non-collapsed row *)
ShowsJob(row, job) ==
    /\ row.job_id = job.job_id
    /\ row.array_id = job.array_id
    /\ row.name = job.name
    /\ row.stdout = job.stdout
    /\ row.stderr = job.stderr
    /\ row.is_array = FALSE
    /\ row.task_count = None

RECURSIVE SumTaskCounts(_)
SumTaskCounts(rows) ==
    IF rows = <<>>
    THEN 0
    ELSE unwrap_or(Head(rows).task_count, 0) + SumTaskCounts(Tail(rows))

(* C8: in AllJobs mode every job without an array-task index yields one    *)
(* non-collapsed row and these rows keep the input order; the jobs with an *)
(* index yield one collapsed row per distinct array id, whose task_count   *)
(* is the number of input jobs with that array id and an index; the row    *)
(* count is (standalone jobs) + (distinct array ids) and the task counts   *)
(* plus the standalone count sum to the number of input jobs.              *)
C8_AllJobsProjection ==
    Projected /\ view_mode = AllJobs =>
        /\ Cardinality(PlainRowPos) = Cardinality(StandalonePos)
        /\ \A k \in 1..Cardinality(PlainRowPos) :
                ShowsJob(display_jobs[Nth(PlainRowPos, k)], jobs[Nth(StandalonePos, k)])
        /\ \A k \in CollapsedRowPos :
                /\ TaskPosOf(display_jobs[k].array_id) # {}
                /\ display_jobs[k].task_count =
                       Some(Cardinality(TaskPosOf(display_jobs[k].array_id)))
        /\ \A i \in TaskPos :
                Cardinality({ k \in CollapsedRowPos :
                                display_jobs[k].array_id = jobs[i].array_id }) = 1
        /\ Len(display_jobs) =
               Cardinality(StandalonePos)
                   + Cardinality({ jobs[i].array_id : i \in TaskPos })
        /\ SumTaskCounts(display_jobs) + Cardinality(StandalonePos) = Len(jobs)

(* the example of the spec: two tasks of array 100 and the standalone job  *)
(* 3 give the row of job 3 and one collapsed row of array 100 with count 2 *)
C8_Witness ==
    /\ Projected
    /\ view_mode = AllJobs
    /\ jobs = <<PoolJob("1"), PoolJob("2"), PoolJob("3")>>
    /\ Len(display_jobs) = 2
    /\ ShowsJob(display_jobs[1], PoolJob("3"))
    /\ display_jobs[2].is_array
    /\ display_jobs[2].array_id = "100"
    /\ display_jobs[2].task_count = Some(2)

(* C9: in ArrayJobDetails(id) mode the display rows are exactly the jobs   *)
(* whose array id is id and which carry an array-task index, in input      *)
(* order, each a non-collapsed row without task_count; a standalone job    *)
(* with the same array id is excluded.                                     *)
C9_ArrayDetailsProjection ==
    Projected /\ view_mode # AllJobs =>
        /\ Len(display_jobs) = Cardinality(TaskPosOf(view_mode[2]))
        /\ \A k \in 1..Len(display_jobs) :
                ShowsJob(display_jobs[k], jobs[Nth(TaskPosOf(view_mode[2]), k)])

(* array 200 has the task 4 and the standalone job 3: only the task is shown *)
C9_Witness ==
    /\ Projected
    /\ view_mode = ArrayJobDetails("200")
    /\ jobs = <<PoolJob("4"), PoolJob("3"), PoolJob("1")>>
    /\ Len(display_jobs) = 1
    /\ ShowsJob(display_jobs[1], PoolJob("4"))

----------------------------------------------------------------------------
(* the steps that move the selection up / down: the keys with no dialog    *)
(* open, and the wheel over the job list                                   *)
NavUpStep ==
    \/ dialog = None /\ (KeyStep("k") \/ KeyStep("Up"))
    \/ /\ last_event'.type = "Mouse"
       /\ last_event'.code = "ScrollUp"
       /\ last_event'.over = "job_list"

NavDownStep ==
    \/ dialog = None /\ (KeyStep("j") \/ KeyStep("Down"))
    \/ /\ last_event'.type = "Mouse"
       /\ last_event'.code = "ScrollDown"
       /\ last_event'.over = "job_list"

(* C11: selection navigation never wraps: Up (or wheel-up over the job     *)
(* list) moves the selection from i to i-1 and leaves index 0 at 0; Down   *)
(* (or wheel-down over the job list) moves it from i to i+1 and leaves the *)
(* last row N-1 at N-1; on an empty display list neither changes the       *)
(* selection; after either on a non-empty list the index is in [0, N-1].   *)
C11_NavigationNeverWraps ==
    [][LET N == Len(display_jobs)
           i == selected[1]
       IN  /\ NavUpStep =>
                IF N = 0
                THEN selected' = selected
                ELSE /\ selected' = Some(IF i = 0 THEN 0 ELSE i - 1)
                     /\ selected'[1] \in 0..(N - 1)
           /\ NavDownStep =>
                IF N = 0
                THEN selected' = selected
                ELSE /\ i < N - 1 => selected' = Some(i + 1)
                     /\ i = N - 1 => selected' = Some(N - 1)
                     /\ selected'[1] \in 0..(N - 1)]_vars

----------------------------------------------------------------------------
(* the steps that map a pointer row onto the selection: a press on the     *)
(* scrollbar, and a drag while dragging                                    *)
BarStep ==
    /\ last_event'.type = "Mouse"
    /\ \/ last_event'.code = "DownLeft" /\ last_event'.over = "scrollbar"
       \/ last_event'.code = "DragLeft" /\ is_dragging_scrollbar

(* round(a / b) in exact arithmetic, for a >= 0, b > 0 *)
RoundExact(a, b) == (2 * a + b) \div (2 * b)

(* C12: with N >= 1 display rows and a scrollbar of H rows, a press or     *)
(* drag at relative vertical position p = (row offset) / (H-1) selects     *)
(* index round(p * (N-1)), a pointer row above the scrollbar selects 0 and *)
(* one below selects N-1; the resulting selection is within [0, N-1], and  *)
(* with N = 0 the selection is unchanged.                                  *)
C12_ScrollbarMapping ==
    [][BarStep =>
         LET N == Len(display_jobs)
             H == job_list_scrollbar_area.height
             y == job_list_scrollbar_area.y
             row == last_event'.row
         IN  IF N = 0
             THEN selected' = selected
             ELSE /\ selected' # None
                  /\ selected'[1] \in 0..(N - 1)
                  /\ row < y => selected' = Some(0)
                  /\ row >= y + H => selected' = Some(N - 1)
                  /\ row >= y /\ row < y + H /\ H > 1 =>
                        selected' = Some(RoundExact((row - y) * (N - 1), H - 1))]_vars

(* C13: with no dialog open, Home sets the scroll anchor to Top and the    *)
(* offset to 0, End sets the anchor to Bottom and the offset to 0, from    *)
(* any prior anchor and offset, and neither changes selection, view mode,  *)
(* stream or wrap flag.                                                    *)
C13_JumpKeys ==
    [][dialog = None =>
         /\ KeyStep("Home") =>
                /\ job_output_anchor' = "Top"
                /\ job_output_offset' = 0
                /\ UNCHANGED <<selected, view_mode, output_file_view, job_output_wrap>>
         /\ KeyStep("End") =>
                /\ job_output_anchor' = "Bottom"
                /\ job_output_offset' = 0
                /\ UNCHANGED <<selected, view_mode, output_file_view, job_output_wrap>>]_vars

(* Home was handled with no dialog open and moved the anchor, which starts *)
(* at Bottom, to Top; the selection, stream and wrap flag had been changed *)
(* before and were kept                                                    *)
C13_Witness ==
    /\ last_event = Event("Key", "Home")
    /\ dialog = None
    /\ job_output_anchor = "Top"
    /\ job_output_offset = 0
    /\ selected = Some(1)
    /\ output_file_view = "Stderr"
    /\ job_output_wrap

----------------------------------------------------------------------------
(* the wheel step the log pane serves *)
WheelStep(kind) ==
    /\ last_event'.type = "Mouse"
    /\ last_event'.code = kind
    /\ last_event'.over = "job_output"

(* the 'down' and 'up' gestures and the number of lines they ask for *)
DownGesture == KeyStep("PageDown") \/ WheelStep("ScrollDown")

UpGesture == KeyStep("PageUp") \/ WheelStep("ScrollUp")

GestureLines ==
    IF last_event'.type = "Mouse" THEN 3 ELSE IF last_event'.mod THEN 50 ELSE 1

(* C14: PageUp/PageDown change the output offset by 1, or by 50 when a     *)
(* modifier is held, and a wheel step over the output pane changes it by   *)
(* 3; a 'down' gesture increases the offset under anchor Top and decreases *)
(* it under anchor Bottom, an 'up' gesture does the opposite; the offset   *)
(* saturates at 0 and at 65535 and never wraps around; the anchor is not   *)
(* changed by these gestures.                                              *)
C14_LogScrolling ==
    [][dialog = None /\ (DownGesture \/ UpGesture) =>
         LET increases == \/ DownGesture /\ job_output_anchor = "Top"
                          \/ UpGesture /\ job_output_anchor = "Bottom"
             sum == job_output_offset + GestureLines
             difference == job_output_offset - GestureLines
         IN  /\ job_output_anchor' = job_output_anchor
             /\ job_output_offset' \in 0..65535
             /\ increases =>
                    /\ job_output_offset' = IF sum > 65535 THEN 65535 ELSE sum
                    /\ job_output_offset' >= job_output_offset
             /\ ~increases =>
                    /\ job_output_offset' = IF difference < 0 THEN 0 ELSE difference
                    /\ job_output_offset' <= job_output_offset]_vars

(* PageDown with a modifier under anchor Top has left the offset at 65535 *)
C14_Witness ==
    /\ last_event = KeyEvent(Key("PageDown", TRUE))
    /\ job_output_anchor = "Top"
    /\ job_output_offset = 65535

----------------------------------------------------------------------------
(* the step that handles the file-content message at the head of the channel *)
DeliverStep == receiver # <<>> /\ receiver' = Tail(receiver)

(* C15: a file-content message replaces the displayed log content or error *)
(* wholesale and changes nothing else (job list, display list, selection,  *)
(* view mode, dialog, anchor, offset, wrap, stream); so a displayed error  *)
(* does not end the application and is replaced by the next successful     *)
(* read, and a displayed content is replaced by the next error.            *)
C15_FileContentMessage ==
    [][DeliverStep =>
         /\ job_output' = Head(receiver).content
         /\ status' = "running"
         /\ UNCHANGED <<jobs, display_jobs, selected, view_mode, dialog,
                        job_output_anchor, job_output_offset, job_output_wrap,
                        output_file_view>>]_vars

(* a successful read was displayed while the cancel dialog was open on the *)
(* second row and the stream was stderr                                    *)
C15_Witness ==
    /\ last_event = Event("JobOutput", "")
    /\ job_output = Ok("/e/100_1")
    /\ dialog # None
    /\ selected = Some(1)
    /\ output_file_view = "Stderr"

(* the paths of the display rows of the snapshot *)
WatchPaths == {"/o/3", "/e/3", "/o/100_1", "/e/100_1"}

(* C16: a message read from the previously watched path may arrive after   *)
(* the redirection and is displayed as it is; the displayed content is     *)
(* always the payload of the file-content message handled last (it changes *)
(* in no other step); and once the target path stays the same, the         *)
(* displayed content eventually is, and stays, one read from that path.    *)
C16_StaleContentOverwritten ==
    /\ [][/\ DeliverStep => job_output' = Head(receiver).content
          /\ ~DeliverStep => job_output' = job_output]_vars
    /\ \A p \in WatchPaths :
          <>[](status = "running" /\ TargetPath(Self) = Some(p))
              => <>[](job_output \in ReadOf(p))

(* content read from the stdout of job 3 is displayed although the target, *)
(* and the thread, have moved on to the stdout of array 100                *)
C16_Witness ==
    /\ last_event = Event("JobOutput", "")
    /\ job_output = Ok("/o/3")
    /\ watched_path = Some("/o/100_1")
    /\ job_output_watcher.path = Some("/o/100_1")

----------------------------------------------------------------------------
(* the sources waiting to be serviced *)
Pending == Len(receiver) + Len(run.input)

(* a step of the loop at the select!, as opposed to the arrival of a       *)
(* message or of a terminal event                                          *)
ServiceStep == run.pc = "select" /\ Pending' # Pending + 1

(* the events after which run asks for a redraw *)
AsksRedraw(ev) == ev.type \in {"Jobs", "JobOutput", "Key", "Mouse", "Resize"}

IsWheel(ev) == ev.type = "Mouse" /\ ev.code \in {"ScrollUp", "ScrollDown"}

(* C17: each loop iteration services exactly one ready source (one watcher *)
(* message, one terminal input event, or the timeout when none is ready);  *)
(* a redraw follows every serviced watcher message, key event, mouse event *)
(* and resize event before the next source is serviced, and no redraw      *)
(* follows a timeout or an ignored input event; the shortened wait is in   *)
(* force only in the iteration directly after a wheel event. (After the    *)
(* quit key or a panic there is no next iteration: run has ended.)         *)
C17_EventLoop ==
    /\ [][ServiceStep =>
            \/ receiver # <<>> /\ receiver' = Tail(receiver) /\ run'.input = run.input
            \/ run.input # <<>> /\ run'.input = Tail(run.input) /\ receiver' = receiver
            \/ Pending = 0 /\ Pending' = 0 /\ last_event'.type = "Timeout"]_vars
    /\ [](status = "running" /\ run.pc = "select" =>
            /\ ~run.needs_redraw
            /\ last_event # NoEvent => (run.drew <=> AsksRedraw(last_event))
            /\ run.timeout = "scroll" <=> IsWheel(last_event))
    /\ [](status = "running" /\ run.pc = "redraw" =>
            (run.needs_redraw <=> AsksRedraw(last_event)))

(* the iteration after a wheel event over the job list: the redraw is done *)
(* and the select! waits with the shortened timeout                        *)
C17_Witness ==
    /\ status = "running"
    /\ run.pc = "select"
    /\ last_event = [Event("Mouse", "ScrollDown") EXCEPT !.over = "job_list"]
    /\ run.drew
    /\ run.timeout = "scroll"
    /\ selected = Some(1)

(* C18: if the cancel command cannot be launched when the dialog is        *)
(* confirmed, the application aborts: the dialog is not closed, nothing    *)
(* displayed changes, and no further event is serviced, whatever waits on  *)
(* the channels.                                                           *)
C18_CancelLaunchFailureIsFatal ==
    /\ [][ServiceStep /\ dialog # None /\ (KeyStep("Enter") \/ KeyStep("y"))
              /\ scancel' = <<>>
            => /\ status' = "aborted"
               /\ UNCHANGED <<dialog, job_output, jobs, display_jobs, selected,
                              view_mode, watched_path>>]_vars
    /\ [][status # "aborted"]_vars

(* the confirmation of the cancel dialog has aborted the application with  *)
(* the dialog open, no command launched and a watcher message unserviced   *)
C18_Witness ==
    /\ status = "aborted"
    /\ last_event = Event("Key", "y")
    /\ dialog = Some("3")
    /\ scancel = <<>>
    /\ receiver # <<>>

----------------------------------------------------------------------------
(* chunked_string has returned: its pieces *)
Chunked == call.result # None

Pieces == call.result[1]

(* C19: for every string s and all non-negative first_len and rest_len,    *)
(* the concatenation of the pieces of chunk(s, first_len, rest_len) in     *)
(* order equals s exactly, no piece of a non-empty string is empty, and    *)
(* chunk of the empty string yields exactly one empty piece.               *)
C19_ChunkingLossless ==
    Chunked =>
        /\ Concat(Pieces) = call.s
        /\ call.s # <<>> => \A i \in 1..Len(Pieces) : Pieces[i] # <<>>
        /\ call.s = <<>> => Pieces = << <<>> >>

(* a string with a two-byte character in it was cut into three pieces *)
C19_Witness ==
    /\ Chunked
    /\ call.s = Str(<<"a", "e'", "b", "a">>)
    /\ Pieces = <<Str(<<"a">>), Str(<<"e'", "b">>), Str(<<"a">>)>>

(* the characters of a &str *)
Decode(s) ==
    LET firsts == SelectSeq(s, LAMBDA b : b[2] = 1)
    IN  [i \in 1..Len(firsts) |-> firsts[i][1]]

Min(a, b) == IF a < b THEN a ELSE b

(* C20: the first piece of chunk(s, first_len, rest_len) is the first      *)
(* first_len characters of s (all of s if shorter) and every later piece   *)
(* has exactly rest_len characters except the last, which has between 1    *)
(* and rest_len; if rest_len = 0 and s is longer than first_len > 0 there  *)
(* are exactly two pieces (the first piece and the whole remainder); if    *)
(* first_len = 0 and rest_len > 0 all pieces are cut at multiples of       *)
(* rest_len from position 0; if both are 0 the whole string is one piece.  *)
C20_ChunkSizes ==
    Chunked =>
        LET chars == Decode(call.s)
            n == Len(chars)
            first_len == call.first_chunk_size
            rest_len == call.chunk_size
            D == [i \in 1..Len(Pieces) |-> Decode(Pieces[i])]
        IN  /\ first_len > 0 => D[1] = SubSeq(chars, 1, Min(first_len, n))
            /\ first_len > 0 /\ rest_len > 0 =>
                    \A i \in 2..Len(D) :
                        IF i < Len(D)
                        THEN Len(D[i]) = rest_len
                        ELSE Len(D[i]) \in 1..rest_len
            /\ first_len > 0 /\ rest_len = 0 /\ n > first_len =>
                    D = <<SubSeq(chars, 1, first_len), SubSeq(chars, first_len + 1, n)>>
            /\ first_len = 0 /\ rest_len > 0 /\ n > 0 =>
                    /\ (Len(D) - 1) * rest_len < n
                    /\ n <= Len(D) * rest_len
                    /\ \A i \in 1..Len(D) :
                          D[i] = SubSeq(chars, (i - 1) * rest_len + 1,
                                        Min(i * rest_len, n))
            /\ first_len = 0 /\ rest_len = 0 => D = <<chars>>

(* with rest_len = 0 a string of four characters and first_len = 1 gives   *)
(* the first character and the remainder                                   *)
C20_Witness ==
    /\ Chunked
    /\ call.first_chunk_size = 1
    /\ call.chunk_size = 0
    /\ call.s = Str(<<"a", "b", "e'", "a">>)
    /\ Pieces = <<Str(<<"a">>), Str(<<"b", "e'", "a">>)>>

----------------------------------------------------------------------------
(* fit_text: what it has rendered so far and what it returned *)
Rendered == call.pc = "done"

Output == call.result[1]

(* the logical lines pulled from the traversal, the skipped ones included *)
Consumed == Len(logical_lines(call.s)) - Len(call.iter)

(* C21: for every content, anchor, offset, wrap flag and viewport size,    *)
(* render returns at most viewport_rows display lines, and they come from  *)
(* an early-terminating traversal: beyond the offset skipped lines it has  *)
(* never consumed more logical lines than it has produced display lines,   *)
(* so it stops consuming once viewport_rows lines exist.                   *)
C21_PaginationBound ==
    /\ Len(call.collected) <= call.lines
    /\ Rendered => Len(Output) <= call.lines
    /\ Consumed <= call.offset + Len(call.collected)

(* one row was asked of a log of two lines: the second line was never      *)
(* pulled                                                                  *)
C21_Witness ==
    /\ Rendered
    /\ call.lines = 1
    /\ call.offset = 0
    /\ Len(logical_lines(call.s)) = 2
    /\ Len(Output) = 1
    /\ Consumed = 1

----------------------------------------------------------------------------
Max(a, b) == IF a > b THEN a ELSE b

(* the logical lines inside the viewport, top to bottom: from the offset   *)
(* on under Top, up to the offset from the end under Bottom                *)
Window ==
    LET ll == logical_lines(call.s)
        n == Len(ll)
    IN  IF call.anchor = "Top"
        THEN SubSeq(ll, call.offset + 1, Min(call.offset + call.lines, n))
        ELSE SubSeq(ll, Max(1, n - call.offset - call.lines + 1), n - call.offset)

(* the characters of a rendered line, markers included *)
LineChars(line) == Decode(Concat([i \in 1..Len(line) |-> line[i].content]))

(* a rendered line is the truncation of a logical line to cols characters *)
Truncation(line, l, cols) ==
    LET src == Decode(l)
        text == LineChars(line)
    IN  /\ Len(text) <= cols
        /\ IF Len(src) > cols
           THEN /\ text # <<>>
                /\ text[Len(text)] = "ellipsis"
                /\ SubSeq(text, 1, Len(text) - 1) = SubSeq(src, 1, Len(text) - 1)
           ELSE text = src

(* C22: with wrap = false, for every viewport_cols and every logical line,  *)
(* the rendered line has at most viewport_cols characters, and whenever    *)
(* the logical line has more than viewport_cols characters the rendered    *)
(* line ends with the ellipsis marker preceded by the line's leading       *)
(* characters; a line that fits is rendered unchanged.                     *)
C22_Truncation ==
    Rendered /\ ~call.wrap =>
        /\ Len(Output) = Len(Window)
        /\ \A i \in 1..Len(Output) : Truncation(Output[i], Window[i], call.cols)

----------------------------------------------------------------------------
(* the positions of the line terminators of the content *)
TerminatorPos == { i \in 1..Len(call.s) : call.s[i][1] \in {"\n", "\r"} }

(* the content after its final line terminator: the line in progress *)
InProgressLine ==
    LET last == IF TerminatorPos = {}
                THEN 0
                ELSE CHOOSE i \in TerminatorPos : \A j \in TerminatorPos : j <= i
    IN  SubSeq(call.s, last + 1, Len(call.s))

(* the content up to its final line terminator *)
TerminatedPart == SubSeq(call.s, 1, Len(call.s) - Len(InProgressLine))

CharSet(s) == { s[i][1] : i \in 1..Len(s) }

(* C23: for every content, the characters after the final line terminator  *)
(* (newline or carriage return) never appear in the rendered output (told  *)
(* apart here as the characters that occur nowhere before it), and content *)
(* with no line terminator at all is rendered as no line.                  *)
C23_InProgressNeverShown ==
    Rendered =>
        /\ \A c \in CharSet(InProgressLine) \ CharSet(TerminatedPart) :
              \A i \in 1..Len(Output) :
                  c \notin CharSet(Concat([k \in 1..Len(Output[i]) |->
                                              Output[i][k].content]))
        /\ TerminatorPos = {} => Output = <<>>

----------------------------------------------------------------------------
(* the terminated logical lines of a content, first to last: what stands   *)
(* before each newline or carriage return, from the terminator before it   *)
RECURSIVE TerminatedLines(_)
TerminatedLines(s) ==
    LET found == { i \in 1..Len(s) : s[i][1] \in {"\n", "\r"} }
    IN  IF found = {}
        THEN <<>>
        ELSE LET i == CHOOSE k \in found : \A j \in found : k <= j
             IN  <<SubSeq(s, 1, i - 1)>> \o TerminatedLines(SubSeq(s, i + 1, Len(s)))

(* lines k .. k + rows - 1 under Top, the last rows of the first n - k     *)
(* lines under Bottom                                                      *)
AnchoredLines ==
    LET ll == TerminatedLines(call.s)
        n == Len(ll)
    IN  IF call.anchor = "Top"
        THEN SubSeq(ll, call.offset + 1, Min(call.offset + call.lines, n))
        ELSE SubSeq(ll, Max(1, n - call.offset - call.lines + 1), n - call.offset)

(* C24: with wrap = false, for content with n terminated logical lines,    *)
(* anchor Top and offset k return lines k .. k + viewport_rows - 1 (as     *)
(* many as exist) in order, and anchor Bottom and offset k return the last *)
(* viewport_rows lines of the first n - k lines, in top-to-bottom order    *)
(* (a line that fits the columns is compared as it is).                    *)
C24_Anchoring ==
    Rendered /\ ~call.wrap =>
        /\ Len(Output) = Len(AnchoredLines)
        /\ \A i \in 1..Len(Output) :
              Len(Decode(AnchoredLines[i])) <= call.cols =>
                  LineChars(Output[i]) = Decode(AnchoredLines[i])

----------------------------------------------------------------------------
(* the logical lines the offset does not skip, top to bottom *)
NonSkipped ==
    LET ll == logical_lines(call.s)
        n == Len(ll)
    IN  IF call.anchor = "Top"
        THEN SubSeq(ll, call.offset + 1, n)
        ELSE SubSeq(ll, 1, n - call.offset)

(* a first chunk: text alone; a continuation: the marker and text *)
IsFirstChunk(line) == Len(line) = 1 /\ line[1].style = ""

IsContinuation(line) ==
    /\ Len(line) = 2
    /\ line[1] = Span(Str(<<"hook", " ">>), "DIM")
    /\ line[2].style = ""

ChunkText(line) == Decode(line[Len(line)].content)

(* the chunks of one logical line: a first chunk of at most cols           *)
(* characters, then continuations of at most cols - 2 characters           *)
WrappedLine(ls, cols) ==
    /\ ls # <<>>
    /\ IsFirstChunk(ls[1])
    /\ Len(ChunkText(ls[1])) <= cols
    /\ \A i \in 2..Len(ls) :
          /\ IsContinuation(ls[i])
          /\ Len(ChunkText(ls[i])) <= Max(cols - 2, 0)
    /\ \A i \in 1..Len(ls) : Len(LineChars(ls[i])) <= cols

(* the wrapped rendering of logical lines, top to bottom *)
RECURSIVE WrappedRendering(_, _)
WrappedRendering(ls, cols) ==
    IF ls = <<>>
    THEN <<>>
    ELSE wrapped(Head(ls), cols) \o WrappedRendering(Tail(ls), cols)

(* C25: with wrap = true each logical line is rendered as a first chunk of *)
(* at most viewport_cols characters followed by continuation chunks of at  *)
(* most viewport_cols - 2 characters each, each continuation prefixed by   *)
(* the 2-column marker, so no rendered line is wider than viewport_cols;   *)
(* under both anchors the chunks of one logical line appear top to bottom  *)
(* in their original order, and the output is the first (Top) or the last  *)
(* (Bottom) viewport_rows rendered lines of the wrapped rendering of the   *)
(* non-skipped lines.                                                      *)
C25_WrappedRendering ==
    Rendered /\ call.wrap =>
        LET all == WrappedRendering(NonSkipped, call.cols)
            m == Len(all)
        IN  /\ \A k \in 1..Len(NonSkipped) :
                  WrappedLine(wrapped(NonSkipped[k], call.cols), call.cols)
            /\ Output = IF call.anchor = "Top"
                        THEN SubSeq(all, 1, Min(call.lines, m))
                        ELSE SubSeq(all, Max(1, m - call.lines + 1), m)

----------------------------------------------------------------------------
(* C26: render is total and degenerate inputs give empty output: for empty *)
(* content, for viewport_rows = 0 and for an offset greater than or equal  *)
(* to the number of logical lines the result is the empty sequence, and no *)
(* slice of a line is taken off a character boundary or out of range, for  *)
(* any content, viewport size, anchor, offset and wrap flag.               *)
C26_TotalAndDegenerate ==
    /\ call.pc # "panicked"
    /\ (/\ Rendered
        /\ \/ call.s = <<>>
           \/ call.lines = 0
           \/ call.offset >= Len(logical_lines(call.s)))
       => Output = <<>>

(* a log of one line with the offset on it, and rows to fill: nothing *)
C26_Witness ==
    /\ Rendered
    /\ call.lines = 2
    /\ call.offset = 1
    /\ call.s = Str(<<"a", "e'", "b", "a", "b", "\n">>)
    /\ Output = <<>>

----------------------------------------------------------------------------
(* C27: after every handled event the query arguments last handed to the   *)
(* queue watcher correspond to the view mode: they are the startup         *)
(* arguments whenever the view mode is AllJobs and ("--job", X) whenever   *)
(* it is ArrayJobDetails(X).                                               *)
C27_QueryFollowsViewMode ==
    /\ view_mode = AllJobs => squeue_args = original_squeue_args
    /\ \A job \in JobPool :
          view_mode = ArrayJobDetails(job.array_id) =>
              squeue_args = <<"--job", job.array_id>>
    /\ \/ view_mode = AllJobs
       \/ \E job \in JobPool : view_mode = ArrayJobDetails(job.array_id)

(* a key was handled in the detail view of array 100, with the query       *)
(* narrowed to it                                                          *)
C27_Witness ==
    /\ view_mode = ArrayJobDetails("100")
    /\ squeue_args = <<"--job", "100">>
    /\ last_event = Event("Key", "j")

----------------------------------------------------------------------------
(* C28: 'c' with no dialog open opens the dialog for the effective id of   *)
(* the row selected at that moment (the job id of a plain row,             *)
(* "<array_id>_[1-<task_count>]" of a collapsed row) and opens none when   *)
(* the list is empty or the selection is out of range; no event changes    *)
(* the id of an open dialog, whatever it does to the selection or to the   *)
(* display list; and the id sent to the cancel command on confirmation is  *)
(* the id of the dialog.                                                   *)
C28_CancelIdIsFixedAtRequest ==
    [][/\ dialog = None /\ KeyStep("c") =>
            dialog' = IF SelectedRow(Self) # None
                      THEN Some(DisplayJobId(SelectedRow(Self)[1]))
                      ELSE None
       /\ dialog # None /\ dialog' # None => dialog' = dialog
       /\ scancel' # <<>> => dialog # None /\ scancel' = <<dialog[1]>>]_vars

(* the cancellation of the collapsed row of array 100 was confirmed after  *)
(* the selection had moved off that row while the dialog was open          *)
C28_Witness ==
    /\ scancel = <<"100_[1-2]">>
    /\ last_event = Event("Key", "Enter")
    /\ SelectedRow(Self) # None
    /\ DisplayJobId(SelectedRow(Self)[1]) # "100_[1-2]"

----------------------------------------------------------------------------
(* the rendered lines that start a logical line, and the chunks of the     *)
(* g-th logical line that starts in the output                             *)
Starts == { i \in 1..Len(Output) : IsFirstChunk(Output[i]) }

GroupEnd(g) ==
    IF g < Cardinality(Starts) THEN Nth(Starts, g + 1) - 1 ELSE Len(Output)

GroupText(g) ==
    Concat([k \in 1..(GroupEnd(g) - Nth(Starts, g) + 1) |->
               ChunkText(Output[Nth(Starts, g) + k - 1])])

(* the logical line that starts at the g-th start *)
GroupLine(g) ==
    IF call.anchor = "Top"
    THEN NonSkipped[g]
    ELSE NonSkipped[Len(NonSkipped) - Cardinality(Starts) + g]

(* the logical line is fully inside the viewport: the viewport is not      *)
(* full, or the line is not the one at the edge where the output is cut    *)
FullyInside(g) ==
    \/ Len(Output) < call.lines
    \/ IF call.anchor = "Top" THEN g < Cardinality(Starts) ELSE g > 1

----------------------------------------------------------------------------
(* a mouse event of the kind was handled in the step *)
MouseStep(kind) == last_event'.type = "Mouse" /\ last_event'.code = kind

(* C30: a drag is on from a left-button press inside the scrollbar region  *)
(* to the next left-button release: is_dragging_scrollbar becomes true     *)
(* only when such a press is handled (a press outside the region never     *)
(* starts a drag) and is false after every release; and a drag-move event  *)
(* changes the selection only if a drag is on, that is, only if a press    *)
(* inside the region was handled earlier with no release in between.       *)
C30_DragProtocol ==
    [][/\ MouseStep("DragLeft") /\ selected' # selected => is_dragging_scrollbar
       /\ ~is_dragging_scrollbar /\ is_dragging_scrollbar' =>
              MouseStep("DownLeft") /\ last_event'.over = "scrollbar"
       /\ MouseStep("DownLeft") /\ last_event'.over # "scrollbar" =>
              is_dragging_scrollbar' = is_dragging_scrollbar
       /\ MouseStep("UpLeft") => ~is_dragging_scrollbar']_vars

(* a drag-move to the middle of the scrollbar, with a drag on, selected    *)
(* the middle one of three rows                                            *)
C30_Witness ==
    /\ last_event.type = "Mouse"
    /\ last_event.code = "DragLeft"
    /\ is_dragging_scrollbar
    /\ Len(display_jobs) = 3
    /\ selected = Some(1)

----------------------------------------------------------------------------
(* the 'q' key event, and where it is in the input channel *)
QuitKeyEvent == KeyInputEvent(Key("q", FALSE))

QuitKeyDelivered == \E i \in 1..Len(run.input) : run.input[i] = QuitKeyEvent

QuitKeyIsNext == run.input # <<>> /\ Head(run.input) = QuitKeyEvent

(* the step takes an event from the input channel: the loop services it *)
InputServiced == Len(run'.input) < Len(run.input)

(* C31: the event loop that services a 'q' key event returns Ok(()) from   *)
(* whatever application state it is in: the step changes nothing of the    *)
(* App (the key handler is not called), spawns no command, asks for no     *)
(* redraw and draws nothing. run returns Ok(()) in no other step, and      *)
(* nothing happens once it has returned. A 'q' key that has been delivered *)
(* to the input channel is serviced, or the application ends before that   *)
(* (a panic): in both cases the application eventually terminates.         *)
C31_Quit ==
    /\ [][/\ status = "running" /\ QuitKeyIsNext /\ InputServiced =>
                 /\ Self' = [Self EXCEPT !.status = "quit", !.scancel = <<>>]
                 /\ run' = [run EXCEPT !.input = Tail(run.input), !.drew = FALSE]
                 /\ receiver' = receiver
                 /\ job_output_watcher' = job_output_watcher
          /\ status = "running" /\ status' = "quit" =>
                 AtSelect /\ QuitKeyIsNext /\ InputServiced
          /\ status # "running" => UNCHANGED vars]_vars
    /\ QuitKeyDelivered ~> status # "running"

(* run has returned Ok(()) on a 'q' key while the cancel dialog was open,  *)
(* with a message of the watcher still waiting in its channel              *)
C31_Witness ==
    /\ status = "quit"
    /\ last_event = Event("Key", "q")
    /\ dialog # None
    /\ receiver # <<>>

====
